---------------------------- MODULE Spec2Model ----------------------------
(***************************************************************************)
(* Library API: the request validation -> authorization -> persistence     *)
(* pipeline of server.js, middleware/auth.js, routes/books.js and          *)
(* routes/authors.js.                                                      *)
(*                                                                         *)
(* Text is a sequence of one-character strings, so that trim, lower-casing *)
(* and the 24-hex-character test are computed and not assumed.  A JSON     *)
(* value is [type, v]; a payload is a function from field names to JSON    *)
(* values.  A stored document is the normalized payload the schema         *)
(* returns.                                                                *)
(***************************************************************************)
EXTENDS Integers, Sequences, FiniteSets, Bags, TLC

(***************************************************************************)
(* Bounds of the model.                                                    *)
(***************************************************************************)
\* ObjectIds the driver generates in one run
MaxIds == 2
\* days the clock may advance in one run
MaxTicks == 1
\* days from 1 January 2025 to the day on which the process is started
StartDay == 364
\* requests that may wait for the store at the same time
MaxInflight == 2
\* characters by which a path id tried on the Identifier Codec may exceed IdLen
MaxExtra == 1

(***************************************************************************)
(* Program constants.                                                      *)
(***************************************************************************)
\* /^[0-9a-fA-F]{24}$/ and the ObjectId hex form
IdLen == 24
\* isbn: z.string().min(10)
MinIsbnLen == 10
\* publishedYear: .gte(1400)
MinYear == 1400

(***************************************************************************)
(* Text.                                                                   *)
(***************************************************************************)
UpperChars == <<"A", "B", "C", "D", "E", "F", "G", "H", "I", "J", "K", "L", "M",
                "N", "O", "P", "Q", "R", "S", "T", "U", "V", "W", "X", "Y", "Z">>
LowerChars == <<"a", "b", "c", "d", "e", "f", "g", "h", "i", "j", "k", "l", "m",
                "n", "o", "p", "q", "r", "s", "t", "u", "v", "w", "x", "y", "z">>
DigitChars == <<"0", "1", "2", "3", "4", "5", "6", "7", "8", "9">>

Range(s) == {s[i] : i \in DOMAIN s}

UpperSet == Range(UpperChars)
LowerSet == Range(LowerChars)
DigitSet == Range(DigitChars)
HexSet == DigitSet \cup {"a", "b", "c", "d", "e", "f"} \cup {"A", "B", "C", "D", "E", "F"}

IsUpper(c) == c \in UpperSet
IsLower(c) == c \in LowerSet
IsDigit(c) == c \in DigitSet
IsLetter(c) == IsUpper(c) \/ IsLower(c)
IsSpace(c) == c = " "
IsHexChar(c) == c \in HexSet

\* the value of each decimal digit
DigitValues == [c \in DigitSet |-> (CHOOSE i \in DOMAIN DigitChars : DigitChars[i] = c) - 1]
DigitVal(c) == DigitValues[c]

\* the lower-case letter of each upper-case letter
LowerOf ==
  [c \in UpperSet |-> LowerChars[CHOOSE i \in DOMAIN UpperChars : UpperChars[i] = c]]

\* String.prototype.toLowerCase, one character
LowerChar(c) == IF IsUpper(c) THEN LowerOf[c] ELSE c

\* String.prototype.toLowerCase
toLowerCase(s) == [i \in DOMAIN s |-> LowerChar(s[i])]

RECURSIVE TrimStart(_)
TrimStart(s) == IF s # <<>> /\ IsSpace(Head(s)) THEN TrimStart(Tail(s)) ELSE s

RECURSIVE TrimEnd(_)
TrimEnd(s) ==
  IF s # <<>> /\ IsSpace(s[Len(s)]) THEN TrimEnd(SubSeq(s, 1, Len(s) - 1)) ELSE s

\* String.prototype.trim
trim(s) == TrimEnd(TrimStart(s))

\* n copies of the character c
Rep(c, n) == [i \in 1..n |-> c]

\* the decimal number written by the digits of s
RECURSIVE ParseDigits(_)
ParseDigits(s) ==
  IF s = <<>> THEN 0
  ELSE 10 * ParseDigits(SubSeq(s, 1, Len(s) - 1)) + DigitVal(s[Len(s)])

(***************************************************************************)
(* JSON values and the values the schemas produce.                         *)
(***************************************************************************)
Str(s) == [type |-> "string", v |-> s]
Num(n) == [type |-> "number", v |-> n]
Bool(b) == [type |-> "boolean", v |-> b]
Arr(a) == [type |-> "array", v |-> a]
\* a JavaScript Date at midnight UTC of the day yyyymmdd
DateValue(d) == [type |-> "Date", v |-> d]
\* a mongodb ObjectId; v is its lower-case hex form
ObjectIdValue(h) == [type |-> "ObjectId", v |-> h]

IsString(x) == x.type = "string"
IsNumber(x) == x.type = "number"
IsBoolean(x) == x.type = "boolean"
IsArray(x) == x.type = "array"

\* {} : the payload with no field
EmptyObject == [f \in {} |-> Num(0)]

\* the object o with field f set to value x
WithField(o, f, x) == [g \in DOMAIN o \cup {f} |-> IF g = f THEN x ELSE o[g]]

\* the object o without field f
WithoutField(o, f) == [g \in DOMAIN o \ {f} |-> o[g]]

(***************************************************************************)
(* Numbers: a JSON number is held in hundredths, so that 14.99 and the     *)
(* .int() test can be written.                                             *)
(***************************************************************************)
IntNum(n) == Num(100 * n)
DecNum(n, h) == Num(100 * n + h)
IsInt(x) == x.v % 100 = 0

(***************************************************************************)
(* Identifier Codec: new ObjectId(id) and parseId.                         *)
(***************************************************************************)
IsHex24(s) == Len(s) = IdLen /\ \A i \in DOMAIN s : IsHexChar(s[i])

NoValue == Str(<<>>)
NoError == [statusCode |-> 0, message |-> "", expose |-> FALSE]

\* e.statusCode = 400, e.expose = true, message 'Invalid id format'
InvalidIdError == [statusCode |-> 400, message |-> "Invalid id format", expose |-> TRUE]

\* new ObjectId(id) as the driver had it before version 6: a string of 12
\* characters is taken as the 12 bytes themselves
ObjectIdFromString_Legacy(id) ==
  IF IsHex24(id) THEN [ok |-> TRUE, value |-> ObjectIdValue(toLowerCase(id))]
  ELSE IF 2 * Len(id) = IdLen THEN [ok |-> TRUE, value |-> ObjectIdValue(Rep("6", IdLen))]
  ELSE [ok |-> FALSE, value |-> NoValue]

\* new ObjectId(id) of a string: the 12 bytes its 24 hex characters write, or a throw
ObjectIdFromString(id) ==
  IF IsHex24(id) THEN [ok |-> TRUE, value |-> ObjectIdValue(toLowerCase(id))]
  ELSE [ok |-> FALSE, value |-> NoValue]

\* ObjectId.prototype.toString / toHexString
ObjectIdToString(o) == o.v

\* parseId: try { return new ObjectId(id) } catch { throw the exposed 400 error }
parseId(id) ==
  LET r == ObjectIdFromString(id)
  IN IF r.ok THEN [ok |-> TRUE, value |-> r.value, err |-> NoError]
     ELSE [ok |-> FALSE, value |-> NoValue, err |-> InvalidIdError]

\* the k-th ObjectId the driver generates for an insert without _id
GeneratedId(k) == ObjectIdValue(Rep("a", IdLen - 1) \o <<DigitChars[k + 1]>>)

(***************************************************************************)
(* Calendar days as yyyymmdd numbers.                                      *)
(***************************************************************************)
YearOf(d) == d \div 10000
MonthOf(d) == (d \div 100) % 100
DayOf(d) == d % 100

IsLeap(y) == (y % 4 = 0 /\ y % 100 # 0) \/ y % 400 = 0

DaysIn(y, m) ==
  IF m = 2 THEN (IF IsLeap(y) THEN 29 ELSE 28)
  ELSE IF m \in {4, 6, 9, 11} THEN 30 ELSE 31

NextDay(d) ==
  IF DayOf(d) < DaysIn(YearOf(d), MonthOf(d)) THEN d + 1
  ELSE IF MonthOf(d) < 12 THEN YearOf(d) * 10000 + (MonthOf(d) + 1) * 100 + 1
  ELSE (YearOf(d) + 1) * 10000 + 101

RECURSIVE DayAfter(_, _)
DayAfter(d, n) == IF n = 0 THEN d ELSE DayAfter(NextDay(d), n - 1)

\* new Date().getFullYear()
getFullYear(today) == YearOf(today)

\* the calendar day that lies n days after the first day of month m of year y
RECURSIVE DateOfDay(_, _, _)
DateOfDay(y, m, n) ==
  IF n < DaysIn(y, m) THEN y * 10000 + m * 100 + n + 1
  ELSE IF m < 12 THEN DateOfDay(y, m + 1, n - DaysIn(y, m))
  ELSE DateOfDay(y + 1, 1, n - DaysIn(y, m))

\* the calendar day (yyyymmdd) on which the process is started
StartDate == DateOfDay(2025, 1, StartDay)

(***************************************************************************)
(* zod string formats.                                                     *)
(***************************************************************************)
\* the positions of character c in s
Positions(s, c) == {i \in DOMAIN s : s[i] = c}

IsAlnum(c) == IsLetter(c) \/ IsDigit(c)

\* z.string().email(): one "@", a local part of letters, digits and single inner
\* dots, a domain of dot-separated labels ending in two or more letters
IsEmail(s) ==
  /\ Cardinality(Positions(s, "@")) = 1
  /\ LET at == CHOOSE i \in DOMAIN s : s[i] = "@"
         dots == {i \in Positions(s, ".") : i > at}
     IN /\ at > 1
        /\ \A i \in DOMAIN s : i # at => IsAlnum(s[i]) \/ s[i] = "."
        /\ s[1] # "." /\ s[at - 1] # "."
        /\ \A i \in DOMAIN s : (i < Len(s) /\ s[i] = ".") => s[i + 1] # "."
        /\ at < Len(s) /\ s[at + 1] # "."
        /\ dots # {}
        /\ LET last == CHOOSE i \in dots : \A j \in dots : j <= i
           IN /\ Len(s) - last >= 2
              /\ \A i \in (last + 1)..Len(s) : IsLetter(s[i])

\* z.string().date(): YYYY-MM-DD naming a day of the calendar
IsDateString(s) ==
  /\ Len(s) = 10
  /\ s[5] = "-" /\ s[8] = "-"
  /\ \A i \in {1, 2, 3, 4, 6, 7, 9, 10} : IsDigit(s[i])
  /\ LET y == ParseDigits(SubSeq(s, 1, 4))
         m == ParseDigits(SubSeq(s, 6, 7))
         d == ParseDigits(SubSeq(s, 9, 10))
     IN m \in 1..12 /\ d >= 1 /\ d <= DaysIn(y, m)

\* new Date(`${s}T00:00:00.000Z`) of a date string
DateOfString(s) ==
  DateValue(ParseDigits(SubSeq(s, 1, 4)) * 10000 + ParseDigits(SubSeq(s, 6, 7)) * 100
            + ParseDigits(SubSeq(s, 9, 10)))

\* z.string().url(): new URL(s) does not throw; the parser strips the spaces around
\* s, then wants a scheme of letters, a colon and something after it
IsUrl(s) ==
  LET t == trim(s)
      colons == Positions(t, ":")
  IN /\ colons # {}
     /\ LET c == CHOOSE i \in colons : \A j \in colons : i <= j
        IN /\ c > 1 /\ c < Len(t)
           /\ \A i \in 1..(c - 1) : IsLetter(t[i])
           /\ \A i \in DOMAIN t : ~IsSpace(t[i])

(***************************************************************************)
(* Schema Validator.  A field rule answers [ok, v]: whether the value      *)
(* passes and the value the schema stores for it.  A schema answers        *)
(* [ok, value, errors]: the normalized object, or the keys of              *)
(* err.flatten().fieldErrors.  z.object() strips the keys it does not      *)
(* declare.                                                                *)
(***************************************************************************)
Pass(x) == [ok |-> TRUE, v |-> x]
Fail == [ok |-> FALSE, v |-> NoValue]

\* nonEmptyTrimmed = z.string().trim().min(1)
nonEmptyTrimmed(x) ==
  IF IsString(x) /\ Len(trim(x.v)) >= 1 THEN Pass(Str(trim(x.v))) ELSE Fail

\* emailLower with the transform (e) => e.trim()
emailLower_TrimOnly(x) ==
  IF IsString(x) /\ IsEmail(x.v) THEN Pass(Str(trim(x.v))) ELSE Fail

\* emailLower = z.string().email().transform((e) => e.toLowerCase().trim())
emailLower(x) ==
  IF IsString(x) /\ IsEmail(x.v) THEN Pass(Str(trim(toLowerCase(x.v)))) ELSE Fail

\* birthdateAsDate = z.string().date().transform(to Date).refine((d) => d <= new Date())
birthdateAsDate(x, today) ==
  IF IsString(x) /\ IsDateString(x.v) /\ DateOfString(x.v).v <= today
  THEN Pass(DateOfString(x.v))
  ELSE Fail

\* website: z.string().url().trim().optional(), of a value that is present
websiteUrl(x) ==
  IF IsString(x) /\ IsUrl(x.v) THEN Pass(Str(trim(x.v))) ELSE Fail

AuthorRequired == {"firstName", "lastName", "email", "birthdate", "nationality"}
AuthorFields == AuthorRequired \cup {"website"}

\* the rule of AuthorSchema for field f
AuthorRule(f, x, today) ==
  CASE f \in {"firstName", "lastName", "nationality"} -> nonEmptyTrimmed(x)
    [] f = "email" -> emailLower(x)
    [] f = "birthdate" -> birthdateAsDate(x, today)
    [] f = "website" -> websiteUrl(x)

\* AuthorSchema.parse(body), at a moment of the day `today`
AuthorSchemaParse(body, today) ==
  LET present == AuthorFields \cap DOMAIN body
      errors == (AuthorRequired \ DOMAIN body)
                \cup {f \in present : ~AuthorRule(f, body[f], today).ok}
  IN IF errors = {}
     THEN [ok |-> TRUE, value |-> [f \in present |-> AuthorRule(f, body[f], today).v],
           errors |-> {}]
     ELSE [ok |-> FALSE, value |-> EmptyObject, errors |-> errors]

\* ObjectIdString = z.string().regex(/^[0-9a-fA-F]{24}$/).transform((s) => new ObjectId(s))
ObjectIdString(x) ==
  IF IsString(x) /\ IsHex24(x.v) THEN Pass(ObjectIdFromString(x.v).value) ELSE Fail

\* z.string().min(n)
StringMin(x, n) == IF IsString(x) /\ Len(x.v) >= n THEN Pass(x) ELSE Fail

\* publishedYear without .gte(1400)
publishedYearRule_NoFloor(x, maxYear) ==
  IF IsNumber(x) /\ IsInt(x) /\ x.v <= 100 * maxYear THEN Pass(x) ELSE Fail

\* publishedYear: z.number().int().gte(1400).lte(maxYear)
publishedYearRule(x, maxYear) ==
  IF IsNumber(x) /\ IsInt(x) /\ x.v >= 100 * MinYear /\ x.v <= 100 * maxYear
  THEN Pass(x) ELSE Fail

\* genres: z.array(z.string()).min(1)
genresRule(x) ==
  IF IsArray(x) /\ Len(x.v) >= 1 /\ \A i \in DOMAIN x.v : IsString(x.v[i])
  THEN Pass(x) ELSE Fail

\* pages: z.number().int().positive()
pagesRule(x) == IF IsNumber(x) /\ IsInt(x) /\ x.v > 0 THEN Pass(x) ELSE Fail

\* price: z.number().nonnegative()
priceRule(x) == IF IsNumber(x) /\ x.v >= 0 THEN Pass(x) ELSE Fail

\* inStock: z.boolean()
inStockRule(x) == IF IsBoolean(x) THEN Pass(x) ELSE Fail

BookFields == {"title", "isbn", "authorId", "publishedYear", "genres", "pages",
               "inStock", "price"}

\* the rule of BookSchema for field f; maxYear is the bound the schema was built with
BookRule(f, x, maxYear) ==
  CASE f = "title" -> StringMin(x, 1)
    [] f = "isbn" -> StringMin(x, MinIsbnLen)
    [] f = "authorId" -> ObjectIdString(x)
    [] f = "publishedYear" -> publishedYearRule(x, maxYear)
    [] f = "genres" -> genresRule(x)
    [] f = "pages" -> pagesRule(x)
    [] f = "inStock" -> inStockRule(x)
    [] f = "price" -> priceRule(x)

\* BookSchema.parse(body)
BookSchemaParse(body, maxYear) ==
  LET present == BookFields \cap DOMAIN body
      errors == (BookFields \ DOMAIN body)
                \cup {f \in present : ~BookRule(f, body[f], maxYear).ok}
  IN IF errors = {}
     THEN [ok |-> TRUE, value |-> [f \in present |-> BookRule(f, body[f], maxYear).v],
           errors |-> {}]
     ELSE [ok |-> FALSE, value |-> EmptyObject, errors |-> errors]

(***************************************************************************)
(* Requests, responses and errors.                                         *)
(*   request  [method, resource, id, cred, ctype, body]                    *)
(*            id: the path segment after /books or /authors (<<>>: none)   *)
(*            cred: [kind, scopes], the bearer credential                  *)
(*            body: [kind, payload], kind "none" (no body), "malformed"    *)
(*            (bytes that are not JSON) or "object" (the JSON text of      *)
(*            payload)                                                     *)
(*   response [status, keys, message, errors, id, location, doc, docs]     *)
(*            keys: the keys of the JSON body ({}: no body, {"[]"}: an     *)
(*            array)                                                       *)
(***************************************************************************)
JsonType == "application/json"
TextType == "text/plain"

NoBody == [kind |-> "none", payload |-> EmptyObject]
MalformedBody == [kind |-> "malformed", payload |-> EmptyObject]
ObjectBody(p) == [kind |-> "object", payload |-> p]

WriteScope == "write:library"
ReadScope == "read:library"

NoCred == [kind |-> "none", scopes |-> {}]
\* a token the verifier rejects: expired, wrong audience, bad signature
BadCred == [kind |-> "invalid", scopes |-> {WriteScope}]
ValidCred(scopes) == [kind |-> "valid", scopes |-> scopes]

NoResp == [status |-> 0, keys |-> {}, message |-> "", errors |-> {}, id |-> <<>>,
           location |-> <<>>, doc |-> EmptyObject, docs |-> {}]
NoReq == [method |-> "", resource |-> "", id |-> <<>>, cred |-> NoCred,
          ctype |-> "", body |-> NoBody]

\* res.status(status).json({ message })
MessageReply(status, message) ==
  [NoResp EXCEPT !.status = status, !.keys = {"message"}, !.message = message]

\* res.status(400).json({ message: 'Validation error', errors: err.flatten() })
ValidationReply(errors) ==
  [NoResp EXCEPT !.status = 400, !.keys = {"message", "errors"},
                 !.message = "Validation error", !.errors = errors]

\* res.status(204).send()
NoContentReply == [NoResp EXCEPT !.status = 204]

\* res.status(200).json(doc)
DocReply(doc) == [NoResp EXCEPT !.status = 200, !.keys = DOMAIN doc, !.doc = doc]

\* res.status(200).json(docs)
ListReply(docs) == [NoResp EXCEPT !.status = 200, !.keys = {"[]"}, !.docs = docs]

PathOf(resource) ==
  IF resource = "books" THEN <<"/", "b", "o", "o", "k", "s", "/">>
  ELSE <<"/", "a", "u", "t", "h", "o", "r", "s", "/">>

\* CreatedReply with the Location of the collection, not of the record
CreatedReply_CollectionLocation(resource, insertedId) ==
  [NoResp EXCEPT !.status = 201, !.keys = {"id"}, !.id = ObjectIdToString(insertedId),
                 !.location = PathOf(resource)]

\* res.status(201).location(`/${resource}/${insertedId}`).json({ id: insertedId.toString() })
CreatedReply(resource, insertedId) ==
  [NoResp EXCEPT !.status = 201, !.keys = {"id"}, !.id = ObjectIdToString(insertedId),
                 !.location = PathOf(resource) \o ObjectIdToString(insertedId)]

\* express-oauth2-jwt-bearer: UnauthorizedError (status 401)
UnauthorizedError == [statusCode |-> 401, message |-> "Unauthorized", expose |-> FALSE]
\* express-oauth2-jwt-bearer: InsufficientScopeError (status 403)
InsufficientScopeError ==
  [statusCode |-> 403, message |-> "Insufficient Scope", expose |-> FALSE]
\* body-parser: a body that is not JSON (http-errors 400, exposed)
BodyParseError == [statusCode |-> 400, message |-> "Unexpected token", expose |-> TRUE]
\* an error the mongodb driver throws: no statusCode, not exposed
StoreError == [statusCode |-> 0, message |-> "MongoServerError", expose |-> FALSE]

\* the error handler answering with err.message whether or not err.expose is set
errorHandler_AlwaysMessage(err) ==
  MessageReply(IF err.statusCode # 0 THEN err.statusCode ELSE 500, err.message)

\* the error handler of server.js
errorHandler(err) ==
  MessageReply(IF err.statusCode # 0 THEN err.statusCode ELSE 500,
               IF err.expose THEN err.message ELSE "Internal Server Error")

\* app.use((req, res) => res.status(404).json({ message: 'Not Found' }))
notFoundHandler == MessageReply(404, "Not Found")

\* express.json(): parses a body sent as application/json into req.body; leaves
\* req.body = {} otherwise; a body that is not JSON is an error
expressJson(r) ==
  IF r.ctype = JsonType /\ r.body.kind = "malformed"
  THEN [ok |-> FALSE, body |-> EmptyObject, err |-> BodyParseError]
  ELSE [ok |-> TRUE,
        body |-> IF r.ctype = JsonType /\ r.body.kind = "object"
                 THEN r.body.payload ELSE EmptyObject,
        err |-> NoError]

\* req.is('application/json'): the request has a body and that content type
reqIs(r) == r.body.kind # "none" /\ r.ctype = JsonType

(***************************************************************************)
(* Authorization Gate (middleware/auth.js).  A middleware is               *)
(* [kind, audience, issuerBaseURL, scopes]; kind is "noop", "auth" or      *)
(* "requiredScopes".                                                       *)
(***************************************************************************)
TrueText == <<"t", "r", "u", "e">>
ProductionText == <<"p", "r", "o", "d", "u", "c", "t", "i", "o", "n">>
HttpsPrefix == <<"h", "t", "t", "p", "s", ":", "/", "/">>

noop == [kind |-> "noop", audience |-> <<>>, issuerBaseURL |-> <<>>, scopes |-> {}]
NoMiddleware == [kind |-> "unset", audience |-> <<>>, issuerBaseURL |-> <<>>, scopes |-> {}]

\* auth({ audience, issuerBaseURL, tokenSigningAlg: 'RS256' })
auth(audience, issuerBaseURL) ==
  [kind |-> "auth", audience |-> audience, issuerBaseURL |-> issuerBaseURL, scopes |-> {}]

\* requiredScopes(scopes)
requiredScopes(scopes) ==
  [kind |-> "requiredScopes", audience |-> <<>>, issuerBaseURL |-> <<>>, scopes |-> scopes]

\* const AUTH_DISABLED = String(process.env.AUTH_DISABLE || '').toLowerCase() === 'true'
AUTH_DISABLED(e) == toLowerCase(e.AUTH_DISABLE) = TrueText

\* const hasAuthConfig = !!AUTH0_AUDIENCE && (!!AUTH0_ISSUER_BASE_URL || !!AUTH0_DOMAIN)
hasAuthConfig(e) ==
  e.AUTH0_AUDIENCE # <<>> /\ (e.AUTH0_ISSUER_BASE_URL # <<>> \/ e.AUTH0_DOMAIN # <<>>)

\* const ISSUER_BASE_URL = AUTH0_ISSUER_BASE_URL || (AUTH0_DOMAIN ? `https://${AUTH0_DOMAIN}` : undefined)
ISSUER_BASE_URL(e) ==
  IF e.AUTH0_ISSUER_BASE_URL # <<>> THEN e.AUTH0_ISSUER_BASE_URL
  ELSE IF e.AUTH0_DOMAIN # <<>> THEN HttpsPrefix \o e.AUTH0_DOMAIN ELSE <<>>

\* const PROD = String(process.env.NODE_ENV || '').toLowerCase() === 'production'
PROD(e) == toLowerCase(e.NODE_ENV) = ProductionText

\* EnforceOf with the second !AUTH_DISABLED forgotten
EnforceOf_ProdAlways(e) == (hasAuthConfig(e) /\ ~AUTH_DISABLED(e)) \/ PROD(e)

\* const ENFORCE = (hasAuthConfig && !AUTH_DISABLED) || (PROD && !AUTH_DISABLED)
EnforceOf(e) ==
  (hasAuthConfig(e) /\ ~AUTH_DISABLED(e)) \/ (PROD(e) /\ ~AUTH_DISABLED(e))

\* const MODE = AUTH_DISABLED ? 'disabled' : (hasAuthConfig ? 'secure' : (PROD ? 'INVALID ...' : 'unconfigured'))
ModeOf(e) ==
  IF AUTH_DISABLED(e) THEN "disabled"
  ELSE IF hasAuthConfig(e) THEN "secure"
  ELSE IF PROD(e) THEN "INVALID (prod missing config)" ELSE "unconfigured"

\* StartupThrows as the earlier revision had it: a warning, and no throw
StartupThrows_WarnOnly(e) == FALSE

\* if (PROD && !AUTH_DISABLED && !hasAuthConfig) throw new Error(...)
StartupThrows(e) == PROD(e) /\ ~AUTH_DISABLED(e) /\ ~hasAuthConfig(e)

\* jwtCheck built whenever the configuration is there, AUTH_DISABLE or not
JwtCheckOf_WhenConfigured(e) ==
  IF hasAuthConfig(e) THEN auth(e.AUTH0_AUDIENCE, ISSUER_BASE_URL(e)) ELSE noop

\* export const jwtCheck = ENFORCE ? auth({...}) : noop
JwtCheckOf(e) ==
  IF EnforceOf(e) THEN auth(e.AUTH0_AUDIENCE, ISSUER_BASE_URL(e)) ELSE noop

\* const reqScopes = (scopes) => (ENFORCE ? requiredScopes(scopes) : noop)
reqScopes(e, scopes) == IF EnforceOf(e) THEN requiredScopes(scopes) ELSE noop

\* a middleware applied to a request: next() or next(err)
Apply(mw, r) ==
  CASE mw.kind = "auth" ->
         IF r.cred.kind = "valid" THEN [ok |-> TRUE, err |-> NoError]
         ELSE [ok |-> FALSE, err |-> UnauthorizedError]
    [] mw.kind = "requiredScopes" ->
         IF r.cred.kind # "valid" THEN [ok |-> FALSE, err |-> UnauthorizedError]
         ELSE IF mw.scopes \subseteq r.cred.scopes THEN [ok |-> TRUE, err |-> NoError]
         ELSE [ok |-> FALSE, err |-> InsufficientScopeError]
    [] OTHER -> [ok |-> TRUE, err |-> NoError]

(***************************************************************************)
(* Persistence Adapter: the collections of the document store.  A          *)
(* collection is a set of documents with distinct _id.  db is              *)
(* [books, authors, nextId, up]: the two collections, the number of        *)
(* ObjectIds generated so far, and whether the store answers.              *)
(***************************************************************************)
\* collection.findOne({ _id }): the documents that match (none or one)
findOne(coll, id) == {d \in coll : d["_id"] = id}

\* collection.insertOne(doc): the driver gives the document a generated _id
insertOne(coll, doc, id) == coll \cup {WithField(doc, "_id", id)}

\* replaceOne called with { upsert: true }
replaceOne_Upsert(coll, id, doc) ==
  [matchedCount |-> Cardinality(findOne(coll, id)),
   coll |-> (coll \ findOne(coll, id)) \cup {WithField(doc, "_id", id)}]

\* updateOne({ _id }, { $set: doc }) in place of replaceOne: the fields of doc are
\* written over the matched document, its other fields stay
replaceOne_Patch(coll, id, doc) ==
  [matchedCount |-> Cardinality(findOne(coll, id)),
   coll |-> (coll \ findOne(coll, id))
            \cup {[f \in DOMAIN d \cup DOMAIN doc |-> IF f \in DOMAIN doc THEN doc[f] ELSE d[f]]
                    : d \in findOne(coll, id)}]

\* collection.replaceOne({ _id }, doc): the matched document becomes doc, its _id kept
replaceOne(coll, id, doc) ==
  [matchedCount |-> Cardinality(findOne(coll, id)),
   coll |-> (coll \ findOne(coll, id))
            \cup {WithField(doc, "_id", id) : d \in findOne(coll, id)}]

\* collection.deleteOne({ _id })
deleteOne(coll, id) ==
  [deletedCount |-> Cardinality(findOne(coll, id)), coll |-> coll \ findOne(coll, id)]

\* what a handler leaves: the response, the calls it made in order, the store
Outcome(resp, calls, db) == [resp |-> resp, calls |-> calls, db |-> db]

NotFoundMessage(resource) ==
  IF resource = "books" THEN "Book not found" ELSE "Author not found"

ContentTypeMessage == "Content-Type must be application/json"

(***************************************************************************)
(* routes/authors.js: the handlers.  body is req.body, today the day of    *)
(* the request.                                                            *)
(***************************************************************************)
\* router.get('/')
authorsList(r, body, db, today) ==
  IF ~db.up THEN Outcome(errorHandler(StoreError), <<"find">>, db)
  ELSE Outcome(ListReply(db.authors), <<"find">>, db)

\* router.get('/:id')
authorsGet(r, body, db, today) ==
  LET id == parseId(r.id)
  IN IF ~id.ok THEN Outcome(errorHandler(id.err), <<"parseId">>, db)
     ELSE IF ~db.up THEN Outcome(errorHandler(StoreError), <<"parseId", "findOne">>, db)
     ELSE IF findOne(db.authors, id.value) = {}
          THEN Outcome(MessageReply(404, "Author not found"), <<"parseId", "findOne">>, db)
     ELSE Outcome(DocReply(CHOOSE d \in findOne(db.authors, id.value) : TRUE),
                  <<"parseId", "findOne">>, db)

\* authorsPost storing req.body in place of the parsed payload
authorsPost_StoresBody(r, body, db, today) ==
  LET parsed == AuthorSchemaParse(body, today)
      insertedId == GeneratedId(db.nextId)
  IN IF ~reqIs(r) THEN Outcome(MessageReply(415, ContentTypeMessage), <<"req.is">>, db)
     ELSE IF ~parsed.ok
          THEN Outcome(ValidationReply(parsed.errors), <<"req.is", "AuthorSchema.parse">>, db)
     ELSE Outcome(CreatedReply("authors", insertedId),
                  <<"req.is", "AuthorSchema.parse", "insertOne">>,
                  [db EXCEPT !.authors = insertOne(db.authors, body, insertedId),
                             !.nextId = db.nextId + 1])

\* router.post('/', jwtCheck, needWrite, handler): the handler
authorsPost(r, body, db, today) ==
  LET parsed == AuthorSchemaParse(body, today)
      insertedId == GeneratedId(db.nextId)
  IN IF ~reqIs(r) THEN Outcome(MessageReply(415, ContentTypeMessage), <<"req.is">>, db)
     ELSE IF ~parsed.ok
          THEN Outcome(ValidationReply(parsed.errors), <<"req.is", "AuthorSchema.parse">>, db)
     ELSE IF ~db.up
          THEN Outcome(errorHandler(StoreError),
                       <<"req.is", "AuthorSchema.parse", "insertOne">>, db)
     ELSE Outcome(CreatedReply("authors", insertedId),
                  <<"req.is", "AuthorSchema.parse", "insertOne">>,
                  [db EXCEPT !.authors = insertOne(db.authors, parsed.value, insertedId),
                             !.nextId = db.nextId + 1])

\* authorsPut applying the schema before it parses the path id
authorsPut_SchemaBeforeId(r, body, db, today) ==
  LET id == parseId(r.id)
      parsed == AuthorSchemaParse(body, today)
      result == replaceOne(db.authors, id.value, parsed.value)
  IN IF ~reqIs(r) THEN Outcome(MessageReply(415, ContentTypeMessage), <<"req.is">>, db)
     ELSE IF ~parsed.ok
          THEN Outcome(ValidationReply(parsed.errors),
                       <<"req.is", "AuthorSchema.parse">>, db)
     ELSE IF ~id.ok
          THEN Outcome(errorHandler(id.err), <<"req.is", "AuthorSchema.parse", "parseId">>, db)
     ELSE IF ~db.up
          THEN Outcome(errorHandler(StoreError),
                       <<"req.is", "AuthorSchema.parse", "parseId", "replaceOne">>, db)
     ELSE IF result.matchedCount = 0
          THEN Outcome(MessageReply(404, "Author not found"),
                       <<"req.is", "AuthorSchema.parse", "parseId", "replaceOne">>,
                       [db EXCEPT !.authors = result.coll])
     ELSE Outcome(NoContentReply,
                  <<"req.is", "AuthorSchema.parse", "parseId", "replaceOne">>,
                  [db EXCEPT !.authors = result.coll])

\* router.put('/:id', jwtCheck, needWrite, handler): the handler
authorsPut(r, body, db, today) ==
  LET id == parseId(r.id)
      parsed == AuthorSchemaParse(body, today)
      result == replaceOne(db.authors, id.value, parsed.value)
  IN IF ~reqIs(r) THEN Outcome(MessageReply(415, ContentTypeMessage), <<"req.is">>, db)
     ELSE IF ~id.ok THEN Outcome(errorHandler(id.err), <<"req.is", "parseId">>, db)
     ELSE IF ~parsed.ok
          THEN Outcome(ValidationReply(parsed.errors),
                       <<"req.is", "parseId", "AuthorSchema.parse">>, db)
     ELSE IF ~db.up
          THEN Outcome(errorHandler(StoreError),
                       <<"req.is", "parseId", "AuthorSchema.parse", "replaceOne">>, db)
     ELSE IF result.matchedCount = 0
          THEN Outcome(MessageReply(404, "Author not found"),
                       <<"req.is", "parseId", "AuthorSchema.parse", "replaceOne">>,
                       [db EXCEPT !.authors = result.coll])
     ELSE Outcome(NoContentReply,
                  <<"req.is", "parseId", "AuthorSchema.parse", "replaceOne">>,
                  [db EXCEPT !.authors = result.coll])

\* router.delete('/:id', jwtCheck, needWrite, handler): the handler
authorsDelete(r, body, db, today) ==
  LET id == parseId(r.id)
      result == deleteOne(db.authors, id.value)
  IN IF ~id.ok THEN Outcome(errorHandler(id.err), <<"parseId">>, db)
     ELSE IF ~db.up THEN Outcome(errorHandler(StoreError), <<"parseId", "deleteOne">>, db)
     ELSE IF result.deletedCount = 0
          THEN Outcome(MessageReply(404, "Author not found"), <<"parseId", "deleteOne">>,
                       [db EXCEPT !.authors = result.coll])
     ELSE Outcome(NoContentReply, <<"parseId", "deleteOne">>,
                  [db EXCEPT !.authors = result.coll])

(***************************************************************************)
(* routes/books.js: the handlers.  maxYear is the bound BookSchema was     *)
(* built with.                                                             *)
(***************************************************************************)
\* router.get('/')
booksList(r, body, db, maxYear) ==
  IF ~db.up THEN Outcome(errorHandler(StoreError), <<"find">>, db)
  ELSE Outcome(ListReply(db.books), <<"find">>, db)

\* router.get('/:id')
booksGet(r, body, db, maxYear) ==
  LET id == parseId(r.id)
  IN IF ~id.ok THEN Outcome(errorHandler(id.err), <<"parseId">>, db)
     ELSE IF ~db.up THEN Outcome(errorHandler(StoreError), <<"parseId", "findOne">>, db)
     ELSE IF findOne(db.books, id.value) = {}
          THEN Outcome(MessageReply(404, "Book not found"), <<"parseId", "findOne">>, db)
     ELSE Outcome(DocReply(CHOOSE d \in findOne(db.books, id.value) : TRUE),
                  <<"parseId", "findOne">>, db)

\* booksPost with the insert moved above the validation
booksPost_InsertThenValidate(r, body, db, maxYear) ==
  LET parsed == BookSchemaParse(body, maxYear)
      insertedId == GeneratedId(db.nextId)
      written == [db EXCEPT !.books = insertOne(db.books, body, insertedId),
                            !.nextId = db.nextId + 1]
  IN IF ~reqIs(r) THEN Outcome(MessageReply(415, ContentTypeMessage), <<"req.is">>, db)
     ELSE IF ~parsed.ok
          THEN Outcome(ValidationReply(parsed.errors),
                       <<"req.is", "insertOne", "BookSchema.parse">>, written)
     ELSE Outcome(CreatedReply("books", insertedId),
                  <<"req.is", "insertOne", "BookSchema.parse">>, written)

\* router.post('/', jwtCheck, needWrite, handler): the handler
booksPost(r, body, db, maxYear) ==
  LET parsed == BookSchemaParse(body, maxYear)
      insertedId == GeneratedId(db.nextId)
  IN IF ~reqIs(r) THEN Outcome(MessageReply(415, ContentTypeMessage), <<"req.is">>, db)
     ELSE IF ~parsed.ok
          THEN Outcome(ValidationReply(parsed.errors), <<"req.is", "BookSchema.parse">>, db)
     ELSE IF ~db.up
          THEN Outcome(errorHandler(StoreError),
                       <<"req.is", "BookSchema.parse", "insertOne">>, db)
     ELSE Outcome(CreatedReply("books", insertedId),
                  <<"req.is", "BookSchema.parse", "insertOne">>,
                  [db EXCEPT !.books = insertOne(db.books, parsed.value, insertedId),
                             !.nextId = db.nextId + 1])

\* booksPut with the content-type test moved below the id and schema checks
booksPut_ValidateFirst(r, body, db, maxYear) ==
  LET id == parseId(r.id)
      parsed == BookSchemaParse(body, maxYear)
      result == replaceOne(db.books, id.value, parsed.value)
  IN IF ~id.ok THEN Outcome(errorHandler(id.err), <<"parseId">>, db)
     ELSE IF ~parsed.ok
          THEN Outcome(ValidationReply(parsed.errors), <<"parseId", "BookSchema.parse">>, db)
     ELSE IF ~reqIs(r)
          THEN Outcome(MessageReply(415, ContentTypeMessage),
                       <<"parseId", "BookSchema.parse", "req.is">>, db)
     ELSE IF result.matchedCount = 0
          THEN Outcome(MessageReply(404, "Book not found"),
                       <<"parseId", "BookSchema.parse", "req.is", "replaceOne">>,
                       [db EXCEPT !.books = result.coll])
     ELSE Outcome(NoContentReply,
                  <<"parseId", "BookSchema.parse", "req.is", "replaceOne">>,
                  [db EXCEPT !.books = result.coll])

\* router.put('/:id', jwtCheck, needWrite, handler): the handler
booksPut(r, body, db, maxYear) ==
  LET id == parseId(r.id)
      parsed == BookSchemaParse(body, maxYear)
      result == replaceOne(db.books, id.value, parsed.value)
  IN IF ~reqIs(r) THEN Outcome(MessageReply(415, ContentTypeMessage), <<"req.is">>, db)
     ELSE IF ~id.ok THEN Outcome(errorHandler(id.err), <<"req.is", "parseId">>, db)
     ELSE IF ~parsed.ok
          THEN Outcome(ValidationReply(parsed.errors),
                       <<"req.is", "parseId", "BookSchema.parse">>, db)
     ELSE IF ~db.up
          THEN Outcome(errorHandler(StoreError),
                       <<"req.is", "parseId", "BookSchema.parse", "replaceOne">>, db)
     ELSE IF result.matchedCount = 0
          THEN Outcome(MessageReply(404, "Book not found"),
                       <<"req.is", "parseId", "BookSchema.parse", "replaceOne">>,
                       [db EXCEPT !.books = result.coll])
     ELSE Outcome(NoContentReply,
                  <<"req.is", "parseId", "BookSchema.parse", "replaceOne">>,
                  [db EXCEPT !.books = result.coll])

\* booksDelete answering 204 whatever deletedCount is
booksDelete_AlwaysNoContent(r, body, db, maxYear) ==
  LET id == parseId(r.id)
      result == deleteOne(db.books, id.value)
  IN IF ~id.ok THEN Outcome(errorHandler(id.err), <<"parseId">>, db)
     ELSE Outcome(NoContentReply, <<"parseId", "deleteOne">>,
                  [db EXCEPT !.books = result.coll])

\* router.delete('/:id', jwtCheck, needWrite, handler): the handler
booksDelete(r, body, db, maxYear) ==
  LET id == parseId(r.id)
      result == deleteOne(db.books, id.value)
  IN IF ~id.ok THEN Outcome(errorHandler(id.err), <<"parseId">>, db)
     ELSE IF ~db.up THEN Outcome(errorHandler(StoreError), <<"parseId", "deleteOne">>, db)
     ELSE IF result.deletedCount = 0
          THEN Outcome(MessageReply(404, "Book not found"), <<"parseId", "deleteOne">>,
                       [db EXCEPT !.books = result.coll])
     ELSE Outcome(NoContentReply, <<"parseId", "deleteOne">>,
                  [db EXCEPT !.books = result.coll])

(***************************************************************************)
(* server.js: the middleware chain and the routers.                        *)
(***************************************************************************)
Mutating == {"POST", "PUT", "DELETE"}

\* the outcome `out` with the calls `calls` made before it
After(calls, out) == [out EXCEPT !.calls = calls \o out.calls]

\* a route declared as (jwtCheck, needWrite, handler): each middleware in turn, then
\* the handler, whose outcome is `out`
Guarded(r, jwt, nw, db, out) ==
  IF ~Apply(jwt, r).ok THEN Outcome(errorHandler(Apply(jwt, r).err), <<"jwtCheck">>, db)
  ELSE IF ~Apply(nw, r).ok
       THEN Outcome(errorHandler(Apply(nw, r).err), <<"jwtCheck", "needWrite">>, db)
  ELSE After(<<"jwtCheck", "needWrite">>, out)

\* app.use('/authors', authorsRouter)
authorsRouter(r, body, jwt, nw, db, today) ==
  CASE r.method = "GET" /\ r.id = <<>> -> authorsList(r, body, db, today)
    [] r.method = "GET" /\ r.id # <<>> -> authorsGet(r, body, db, today)
    [] r.method = "POST" /\ r.id = <<>> ->
         Guarded(r, jwt, nw, db, authorsPost(r, body, db, today))
    [] r.method = "PUT" /\ r.id # <<>> ->
         Guarded(r, jwt, nw, db, authorsPut(r, body, db, today))
    [] r.method = "DELETE" /\ r.id # <<>> ->
         Guarded(r, jwt, nw, db, authorsDelete(r, body, db, today))
    [] OTHER -> Outcome(notFoundHandler, <<>>, db)

\* app.use('/books', booksRouter)
booksRouter(r, body, jwt, nw, db, maxYear) ==
  CASE r.method = "GET" /\ r.id = <<>> -> booksList(r, body, db, maxYear)
    [] r.method = "GET" /\ r.id # <<>> -> booksGet(r, body, db, maxYear)
    [] r.method = "POST" /\ r.id = <<>> ->
         Guarded(r, jwt, nw, db, booksPost(r, body, db, maxYear))
    [] r.method = "PUT" /\ r.id # <<>> ->
         Guarded(r, jwt, nw, db, booksPut(r, body, db, maxYear))
    [] r.method = "DELETE" /\ r.id # <<>> ->
         Guarded(r, jwt, nw, db, booksDelete(r, body, db, maxYear))
    [] OTHER -> Outcome(notFoundHandler, <<>>, db)

\* the application: express.json(), then the router of the path, then the error
\* handler for whatever was passed to next(err)
app(r, jwt, nw, db, today, maxYear) ==
  LET parsed == expressJson(r)
  IN IF ~parsed.ok THEN Outcome(errorHandler(parsed.err), <<"express.json">>, db)
     ELSE IF r.resource = "books"
          THEN After(<<"express.json">>, booksRouter(r, parsed.body, jwt, nw, db, maxYear))
     ELSE After(<<"express.json">>, authorsRouter(r, parsed.body, jwt, nw, db, today))

(***************************************************************************)
(* The inputs the requests are drawn from.                                 *)
(***************************************************************************)
HobbitAuthorId == Rep("c", IdLen - 1) \o <<"4">>

\* the scenario of the API documentation: The Hobbit, 1937, 310 pages, 14.99
HobbitPayload ==
  [title |-> Str(<<"H">>), isbn |-> Str(Rep("9", 13)), authorId |-> Str(HobbitAuthorId),
   publishedYear |-> IntNum(1937), genres |-> Arr(<<Str(<<"F">>)>>),
   pages |-> IntNum(310), inStock |-> Bool(TRUE), price |-> DecNum(14, 99)]

BookPayloads ==
  { HobbitPayload,
    \* the same book, authorId written in upper-case hex
    [HobbitPayload EXCEPT !.authorId = Str(Rep("C", IdLen - 1) \o <<"4">>)],
    \* published next year, and the year after
    [HobbitPayload EXCEPT !.publishedYear = IntNum(YearOf(StartDate) + 1)],
    [HobbitPayload EXCEPT !.publishedYear = IntNum(YearOf(StartDate) + 2)],
    [HobbitPayload EXCEPT !.publishedYear = IntNum(MinYear - 1)],
    WithoutField(HobbitPayload, "title"),
    WithField(HobbitPayload, "_id", Str(Rep("d", IdLen))) }

TolkienPayload ==
  [firstName |-> Str(<<"J", "o">>), lastName |-> Str(<<"T">>),
   email |-> Str(<<"j", "@", "e", ".", "u", "k">>),
   birthdate |-> Str(<<"1", "8", "9", "2", "-", "0", "1", "-", "0", "3">>),
   nationality |-> Str(<<"U", "K">>),
   website |-> Str(HttpsPrefix \o <<"t", ".", "u", "k">>)]

\* the day after StartDate, as YYYY-MM-DD
TomorrowText ==
  LET d == NextDay(StartDate)
      Two(n) == <<DigitChars[(n \div 10) + 1], DigitChars[(n % 10) + 1]>>
  IN Two(YearOf(d) \div 100) \o Two(YearOf(d) % 100) \o <<"-">> \o Two(MonthOf(d))
     \o <<"-">> \o Two(DayOf(d))

AuthorPayloads ==
  { TolkienPayload,
    \* the same author, to be trimmed and lower-cased
    [TolkienPayload EXCEPT !.firstName = Str(<<" ", "J", "o", " ">>),
                           !.email = Str(<<"J", "@", "E", ".", "U", "K">>),
                           !.website = Str(<<" ">> \o HttpsPrefix \o <<"t", ".", "u", "k", " ">>)],
    WithoutField(TolkienPayload, "website"),
    \* born the day after the process started
    [TolkienPayload EXCEPT !.birthdate = Str(TomorrowText)],
    [TolkienPayload EXCEPT !.email = Str(<<"j", "e", ".", "u", "k">>)],
    WithoutField(TolkienPayload, "lastName"),
    WithField(TolkienPayload, "_id", Str(Rep("d", IdLen))) }

Payloads(resource) == IF resource = "books" THEN BookPayloads ELSE AuthorPayloads

ValidPayload(resource) == IF resource = "books" THEN HobbitPayload ELSE TolkienPayload

InvalidPayload(resource) ==
  IF resource = "books" THEN WithoutField(HobbitPayload, "title")
  ELSE WithoutField(TolkienPayload, "lastName")

Resources == {"books", "authors"}

\* path ids: the ids the store can hold, one it never holds, one that is no id, and
\* the first generated id written in upper case
UnknownId == Rep("b", IdLen)
MalformedId == <<"x", "y", "z">>
UpperId == Rep("A", IdLen - 1) \o <<"0">>
PathIds ==
  {ObjectIdToString(GeneratedId(k)) : k \in 0..(MaxIds - 1)}
    \cup {UnknownId, MalformedId, UpperId}

\* the content type and body of a request that carries one
Contents(resource) ==
  ({JsonType} \X ({ObjectBody(p) : p \in Payloads(resource)} \cup {MalformedBody, NoBody}))
    \cup ({TextType} \X {ObjectBody(ValidPayload(resource)),
                         ObjectBody(InvalidPayload(resource)),
                         MalformedBody})

Req(method, resource, id, cred, content) ==
  [method |-> method, resource |-> resource, id |-> id, cred |-> cred,
   ctype |-> content[1], body |-> content[2]]

NoContent == <<"", NoBody>>

WriteCred == ValidCred({WriteScope})

\* the credentials the gate refuses when it enforces
DeniedCreds == {NoCred, ValidCred({ReadScope})}

\* one content of each kind: valid, violating the schema, not JSON, not sent as JSON
SomeContents(resource) ==
  { <<JsonType, ObjectBody(ValidPayload(resource))>>,
    <<JsonType, ObjectBody(InvalidPayload(resource))>>,
    <<JsonType, MalformedBody>>,
    <<TextType, ObjectBody(ValidPayload(resource))>> }

SomeIds == {ObjectIdToString(GeneratedId(0)), MalformedId}

\* the first id the store generates, and one it never holds
MainIds == {ObjectIdToString(GeneratedId(0)), UnknownId}

DeleteContents == {NoContent, <<JsonType, MalformedBody>>}

\* the requests of the pipeline: under a write-scoped credential every content on a
\* Create and on a Replace of MainIds, and one content of each kind on a Replace of
\* every path id; one content and id of each kind under a refused credential; and a
\* rejected token on an otherwise valid request
RequestsOf(res) ==
  {Req("GET", res, <<>>, NoCred, NoContent)}
    \cup {Req("GET", res, id, NoCred, NoContent) : id \in PathIds}
    \cup {Req("POST", res, <<>>, WriteCred, b) : b \in Contents(res)}
    \cup {Req("POST", res, <<>>, c, b) : c \in DeniedCreds, b \in SomeContents(res)}
    \cup {Req("PUT", res, id, WriteCred, b) : id \in MainIds, b \in Contents(res)}
    \cup {Req("PUT", res, id, WriteCred, b) : id \in PathIds, b \in SomeContents(res)}
    \cup {Req("PUT", res, id, c, b) : id \in SomeIds, c \in DeniedCreds,
                                      b \in SomeContents(res)}
    \cup {Req("DELETE", res, id, WriteCred, b) : id \in PathIds, b \in DeleteContents}
    \cup {Req("DELETE", res, id, c, b) : id \in SomeIds, c \in DeniedCreds,
                                         b \in DeleteContents}
    \cup {Req(m, res, IF m = "POST" THEN <<>> ELSE ObjectIdToString(GeneratedId(0)),
              BadCred, IF m = "DELETE" THEN NoContent
                       ELSE <<JsonType, ObjectBody(ValidPayload(res))>>) : m \in Mutating}
    \cup {Req("DELETE", res, <<>>, WriteCred, NoContent)}

Requests == UNION {RequestsOf(res) : res \in Resources}

(***************************************************************************)
(* process.env, as far as middleware/auth.js reads it.                     *)
(***************************************************************************)
Env(disable, audience, issuer, domain, nodeEnv) ==
  [AUTH_DISABLE |-> disable, AUTH0_AUDIENCE |-> audience,
   AUTH0_ISSUER_BASE_URL |-> issuer, AUTH0_DOMAIN |-> domain, NODE_ENV |-> nodeEnv]

AudienceText == <<"a", "p", "i">>
IssuerText == HttpsPrefix \o <<"i", "s", "s">>
DomainText == <<"t", "n", "t">>

Envs ==
  { Env(d, a, i, m, n) :
      d \in {<<>>, <<"T", "R", "U", "E">>, <<"f", "a", "l", "s", "e">>},
      a \in {<<>>, AudienceText}, i \in {<<>>, IssuerText}, m \in {<<>>, DomainText},
      n \in {<<>>, <<"P", "r", "o", "d", "u", "c", "t", "i", "o", "n">>} }

\* one environment of each kind: secure (in production, the issuer taken from the
\* domain), disabled in production, production without configuration
PipelineEnvs ==
  { Env(<<"f", "a", "l", "s", "e">>, AudienceText, <<>>, DomainText, ProductionText),
    Env(<<"T", "R", "U", "E">>, <<>>, <<>>, <<>>, ProductionText),
    Env(<<>>, <<>>, <<>>, DomainText, ProductionText) }

(***************************************************************************)
(* The state.                                                              *)
(*   env        process.env                                                *)
(*   phase      "boot" (modules not yet evaluated), "crashed" (the import  *)
(*              threw), "listening", "responded" (a response was sent and  *)
(*              the request is not yet closed)                             *)
(*   ENFORCE, MODE, jwtCheck, needWrite, needRead                          *)
(*              the constants of middleware/auth.js                        *)
(*   maxYear    the upper bound BookSchema was built with                  *)
(*   now        today, yyyymmdd                                            *)
(*   books, authors, nextId, storeUp          the document store           *)
(*   req, resp, calls   the request being answered, its response, and the  *)
(*              calls made for it in order                                 *)
(*   deleted    history: the ids whose DELETE was answered 204             *)
(*   inflight   the requests whose store call is still to run, as a bag    *)
(*   arg, result   the input of a function applied on its own, and the     *)
(*              values it returned, in order                               *)
(***************************************************************************)
VARIABLES env, phase, ENFORCE, MODE, jwtCheck, needWrite, needRead, maxYear, now,
          books, authors, nextId, storeUp, req, resp, calls, deleted, inflight,
          arg, result

vars == <<env, phase, ENFORCE, MODE, jwtCheck, needWrite, needRead, maxYear, now,
          books, authors, nextId, storeUp, req, resp, calls, deleted, inflight,
          arg, result>>

gateVars == <<ENFORCE, MODE, jwtCheck, needWrite, needRead>>
storeVars == <<books, authors, nextId, storeUp>>
exchangeVars == <<req, resp, calls>>
callVars == <<arg, result>>

NoInflight == EmptyBag
NoArg == NoValue

db == [books |-> books, authors |-> authors, nextId |-> nextId, up |-> storeUp]

LastDay == DayAfter(StartDate, MaxTicks)

ProgramInit(envs) ==
  /\ env \in envs
  /\ phase = "boot"
  /\ ENFORCE = FALSE /\ MODE = ""
  /\ jwtCheck = NoMiddleware /\ needWrite = NoMiddleware /\ needRead = NoMiddleware
  /\ maxYear = 0
  /\ now = StartDate
  /\ books = {} /\ authors = {} /\ nextId = 0 /\ storeUp = TRUE
  /\ req = NoReq /\ resp = NoResp /\ calls = <<>>
  /\ deleted = {}
  /\ inflight = NoInflight

InitWith(envs) == ProgramInit(envs) /\ arg = NoArg /\ result = <<>>

\* node server.js: the imports are evaluated (middleware/auth.js, then the routers,
\* which build their schemas), then the server listens; a throw ends the process
Startup ==
  /\ phase = "boot"
  /\ IF StartupThrows(env)
     THEN /\ phase' = "crashed"
          /\ ENFORCE' = EnforceOf(env) /\ MODE' = ModeOf(env)
          /\ UNCHANGED <<jwtCheck, needWrite, needRead, maxYear>>
     ELSE /\ phase' = "listening"
          /\ ENFORCE' = EnforceOf(env) /\ MODE' = ModeOf(env)
          /\ jwtCheck' = JwtCheckOf(env)
          /\ needWrite' = reqScopes(env, {WriteScope})
          /\ needRead' = reqScopes(env, {ReadScope})
          /\ maxYear' = getFullYear(now) + 1
  /\ UNCHANGED <<env, now, storeVars, exchangeVars, deleted, inflight, callVars>>

\* Handle with the gate rebuilt from process.env for each request
Handle_ReadsEnv(r) ==
  /\ phase = "listening"
  /\ r.method = "POST" => nextId < MaxIds
  /\ LET out == app(r, JwtCheckOf(env), reqScopes(env, {WriteScope}), db, now, maxYear)
     IN /\ req' = r
        /\ resp' = out.resp
        /\ calls' = out.calls
        /\ books' = out.db.books
        /\ authors' = out.db.authors
        /\ nextId' = out.db.nextId
        /\ deleted' = IF r.method = "DELETE" /\ out.resp.status = 204
                      THEN deleted \cup {parseId(r.id).value}
                      ELSE deleted
  /\ phase' = "responded"
  /\ UNCHANGED <<env, gateVars, maxYear, now, storeUp, inflight, callVars>>

\* one request, from express.json() to the response
Handle(r) ==
  /\ phase = "listening"
  /\ r.method = "POST" => nextId < MaxIds
  /\ LET out == app(r, jwtCheck, needWrite, db, now, maxYear)
     IN /\ req' = r
        /\ resp' = out.resp
        /\ calls' = out.calls
        /\ books' = out.db.books
        /\ authors' = out.db.authors
        /\ nextId' = out.db.nextId
        /\ deleted' = IF r.method = "DELETE" /\ out.resp.status = 204
                      THEN deleted \cup {parseId(r.id).value}
                      ELSE deleted
  /\ phase' = "responded"
  /\ UNCHANGED <<env, gateVars, maxYear, now, storeUp, inflight, callVars>>

\* the exchange is over; the server waits for the next request
Finish ==
  /\ phase = "responded"
  /\ phase' = "listening"
  /\ req' = NoReq /\ resp' = NoResp /\ calls' = <<>>
  /\ UNCHANGED <<env, gateVars, maxYear, now, storeVars, deleted, inflight, callVars>>

\* a day passes
Tick ==
  /\ phase = "listening"
  /\ now # LastDay
  /\ now' = NextDay(now)
  /\ UNCHANGED <<env, phase, gateVars, maxYear, storeVars, exchangeVars, deleted, inflight, callVars>>

\* something assigns to process.env after startup
ChangeEnv ==
  /\ phase = "listening"
  /\ env' \in Envs \ {env}
  /\ UNCHANGED <<phase, gateVars, maxYear, now, storeVars, exchangeVars, deleted, inflight, callVars>>

Init == InitWith(PipelineEnvs)

Next ==
  \/ Startup
  \/ \E r \in Requests : Handle(r)
  \/ Finish
  \/ Tick

Spec == Init /\ [][Next]_vars

(***************************************************************************)
(* The gate under every environment: startup, changes of process.env       *)
(* after it, and the requests that differ only in method, target and       *)
(* credential.                                                             *)
(***************************************************************************)
GateRequestsOf(res) ==
  LET valid == <<JsonType, ObjectBody(ValidPayload(res))>>
      ids == {ObjectIdToString(GeneratedId(0)), UnknownId}
      creds == {NoCred, ValidCred({ReadScope}), WriteCred}
  IN {Req("GET", res, ObjectIdToString(GeneratedId(0)), NoCred, NoContent)}
       \cup {Req("POST", res, <<>>, c, valid) : c \in creds}
       \cup {Req("PUT", res, id, c, valid) : id \in ids, c \in creds}
       \cup {Req("DELETE", res, id, c, NoContent) : id \in ids, c \in creds}

GateRequests == UNION {GateRequestsOf(res) : res \in Resources}

InitGate == InitWith(Envs)

NextGate ==
  \/ Startup
  \/ ChangeEnv
  \/ \E r \in GateRequests : Handle(r)
  \/ Finish

SpecGate == InitGate /\ [][NextGate]_vars

(***************************************************************************)
(* The Identifier Codec on its own: parseId applied to a string, and the   *)
(* identifier it returns written back as a string.                         *)
(***************************************************************************)
programVars == <<env, phase, gateVars, maxYear, now, storeVars, exchangeVars, deleted,
                 inflight>>

IdChars == {"0", "9", "a", "f", "A", "F", "g", "G", "z", " ", "-"}

\* strings of one character, of every length up to IdLen + MaxExtra; strings of IdLen
\* characters that differ from an id in their last character; the ids of the store
IdTexts ==
  {Rep(c, n) : c \in IdChars, n \in 0..(IdLen + MaxExtra)}
    \cup {Rep(c, IdLen - 1) \o <<e>> : c \in {"a", "A", "0"}, e \in IdChars}
    \cup {ObjectIdToString(GeneratedId(k)) : k \in 0..(MaxIds - 1)}
    \cup {UnknownId, MalformedId, UpperId, HobbitAuthorId}

InitCodec ==
  /\ ProgramInit(PipelineEnvs)
  /\ arg \in {Str(s) : s \in IdTexts}
  /\ result = <<>>

\* parseId(arg)
ParseIdCall ==
  /\ result = <<>>
  /\ result' = <<parseId(arg.v)>>
  /\ UNCHANGED <<programVars, arg>>

\* the identifier parseId returned, .toString()
ToStringCall ==
  /\ Len(result) = 1 /\ result[1].ok
  /\ result' = Append(result, Str(ObjectIdToString(result[1].value)))
  /\ UNCHANGED <<programVars, arg>>

NextCodec ==
  \/ ParseIdCall
  \/ ToStringCall

SpecCodec == InitCodec /\ [][NextCodec]_vars

(***************************************************************************)
(* The Schema Validator behind the write routes: Create and Replace with   *)
(* payloads at and beyond each declared bound, on a secure server whose    *)
(* clock advances.                                                         *)
(***************************************************************************)
\* The Hobbit with one field at, or one step beyond, its bound, or without one field
BoundaryBookPayloads ==
  {HobbitPayload}
    \cup {[HobbitPayload EXCEPT !.publishedYear = IntNum(y)] :
            y \in {MinYear - 1, MinYear, YearOf(StartDate) + 1, YearOf(StartDate) + 2, 3000}}
    \cup {[HobbitPayload EXCEPT !.isbn = Str(Rep("9", n))] :
            n \in {MinIsbnLen - 1, MinIsbnLen}}
    \cup {[HobbitPayload EXCEPT !.genres = Arr(<<>>)]}
    \cup {[HobbitPayload EXCEPT !.pages = IntNum(n)] : n \in {-1, 0, 1}}
    \cup {[HobbitPayload EXCEPT !.price = Num(n)] : n \in {-1, 0}}
    \cup {[HobbitPayload EXCEPT !.authorId = Str(s)] :
            s \in {MalformedId, Rep("c", IdLen - 1), Rep("c", IdLen - 1) \o <<"g">>}}
    \cup {WithoutField(HobbitPayload, f) : f \in BookFields}

\* the day n days after StartDate, as YYYY-MM-DD
DateText(n) ==
  LET d == DayAfter(StartDate, n)
      Two(k) == <<DigitChars[(k \div 10) + 1], DigitChars[(k % 10) + 1]>>
  IN Two(YearOf(d) \div 100) \o Two(YearOf(d) % 100) \o <<"-">> \o Two(MonthOf(d))
     \o <<"-">> \o Two(DayOf(d))

\* Tolkien born on the day the process starts, or on a later day, or without one field
BoundaryAuthorPayloads ==
  {TolkienPayload}
    \cup {[TolkienPayload EXCEPT !.birthdate = Str(DateText(n))] : n \in 0..(MaxTicks + 1)}
    \cup {WithoutField(TolkienPayload, f) : f \in AuthorFields}

BoundaryPayloads(res) ==
  IF res = "books" THEN BoundaryBookPayloads ELSE BoundaryAuthorPayloads

ValidateRequestsOf(res) ==
  UNION { {Req("POST", res, <<>>, WriteCred, <<JsonType, ObjectBody(p)>>),
           Req("PUT", res, ObjectIdToString(GeneratedId(0)), WriteCred,
               <<JsonType, ObjectBody(p)>>)} : p \in BoundaryPayloads(res) }

ValidateRequests == UNION {ValidateRequestsOf(res) : res \in Resources}

SecureEnv == Env(<<>>, AudienceText, IssuerText, <<>>, <<>>)

InitValidate == InitWith({SecureEnv})

NextValidate ==
  \/ Startup
  \/ \E r \in ValidateRequests : Handle(r)
  \/ Finish
  \/ Tick

SpecValidate == InitValidate /\ [][NextValidate]_vars

(***************************************************************************)
(* AuthorSchema on its own: a payload is parsed, the object parse returned *)
(* is parsed again, and then once more with its birthdate written as the   *)
(* date string again.                                                      *)
(***************************************************************************)
\* Tolkien with names, email and website in other spellings, born on another day
SpelledAuthorPayloads ==
  { [TolkienPayload EXCEPT !.firstName = Str(fn), !.nationality = Str(na),
                           !.email = Str(em), !.birthdate = Str(bd),
                           !.website = Str(ws)] :
      fn \in {<<"J", "o">>, <<" ", "J", "o", " ">>, <<" ">>},
      na \in {<<"U", "K">>, <<"U", "K", " ">>},
      em \in {<<"j", "@", "e", ".", "u", "k">>, <<"J", "@", "E", ".", "U", "K">>,
              <<"J", ".", "r", "@", "e", ".", "U", "k">>},
      bd \in {TolkienPayload.birthdate.v, DateText(0), DateText(1)},
      ws \in {HttpsPrefix \o <<"t", ".", "u", "k">>,
              <<" ">> \o HttpsPrefix \o <<"t", ".", "u", "k", " ">>} }

NormalizeInputs ==
  SpelledAuthorPayloads \cup {WithoutField(p, "website") : p \in SpelledAuthorPayloads}

InitNormalize ==
  /\ ProgramInit({SecureEnv})
  /\ arg \in NormalizeInputs
  /\ result = <<>>

\* AuthorSchema.parse(arg)
ParseCall ==
  /\ result = <<>>
  /\ result' = <<AuthorSchemaParse(arg, now)>>
  /\ UNCHANGED <<programVars, arg>>

\* AuthorSchema.parse(parsed), parsed the object the first call returned
ParseAgainCall ==
  /\ Len(result) = 1 /\ result[1].ok
  /\ result' = Append(result, AuthorSchemaParse(result[1].value, now))
  /\ UNCHANGED <<programVars, arg>>

\* AuthorSchema.parse({ ...parsed, birthdate: arg.birthdate })
ParseAsTextCall ==
  /\ Len(result) = 2
  /\ result' = Append(result,
                      AuthorSchemaParse(WithField(result[1].value, "birthdate",
                                                  arg.birthdate), now))
  /\ UNCHANGED <<programVars, arg>>

NextNormalize ==
  \/ ParseCall
  \/ ParseAgainCall
  \/ ParseAsTextCall

SpecNormalize == InitNormalize /\ [][NextNormalize]_vars

(***************************************************************************)
(* The five operations against a store that fails and recovers: while the  *)
(* store is down every call of a handler on getDb().collection(...) throws.*)
(***************************************************************************)
\* the five operations of a resource, on an id the store generates, on one it
\* never holds and on a malformed one, with a valid and with an invalid payload
StoreRequestsOf(res) ==
  {Req("GET", res, <<>>, NoCred, NoContent)}
    \cup {Req("GET", res, id, NoCred, NoContent) : id \in MainIds \cup {MalformedId}}
    \cup {Req("POST", res, <<>>, WriteCred, b) : b \in SomeContents(res)}
    \cup {Req("PUT", res, id, WriteCred, b) : id \in MainIds, b \in SomeContents(res)}
    \cup {Req("PUT", res, MalformedId, WriteCred,
              <<JsonType, ObjectBody(ValidPayload(res))>>)}
    \cup {Req("DELETE", res, id, WriteCred, NoContent) : id \in MainIds \cup {MalformedId}}
    \cup {Req("DELETE", res, ObjectIdToString(GeneratedId(0)), NoCred, NoContent)}

StoreRequests == UNION {StoreRequestsOf(res) : res \in Resources}

InitStore == InitWith({SecureEnv})

\* the connection to the store is lost between two requests
StoreFails ==
  /\ phase = "listening"
  /\ storeUp /\ storeUp' = FALSE
  /\ UNCHANGED <<env, phase, gateVars, maxYear, now, books, authors, nextId,
                 exchangeVars, deleted, inflight, callVars>>

\* the connection to the store is back
StoreRecovers ==
  /\ phase = "listening"
  /\ ~storeUp /\ storeUp' = TRUE
  /\ UNCHANGED <<env, phase, gateVars, maxYear, now, books, authors, nextId,
                 exchangeVars, deleted, inflight, callVars>>

NextStore ==
  \/ Startup
  \/ \E r \in StoreRequests : Handle(r)
  \/ Finish
  \/ StoreFails
  \/ StoreRecovers

SpecStore == InitStore /\ [][NextStore]_vars

(***************************************************************************)
(* Requests in flight together.  A handler runs without interruption up to *)
(* its await of the store call; the store performs the calls of the        *)
(* requests in flight one at a time, in any order, and the handler whose   *)
(* call returned builds its response.  A request that never reaches the    *)
(* store is answered when it is received.                                  *)
(***************************************************************************)
\* Tolkien and The Hobbit in a second edition
OtherPayload(res) ==
  IF res = "books" THEN [HobbitPayload EXCEPT !.title = Str(<<"H", "2">>)]
  ELSE [TolkienPayload EXCEPT !.lastName = Str(<<"T", "2">>)]

\* Create, Replace (by another payload, and by an invalid one) and Delete of the
\* first id
ConcurrentRequestsOf(res) ==
  LET first == ObjectIdToString(GeneratedId(0))
  IN {Req("POST", res, <<>>, WriteCred, <<JsonType, ObjectBody(ValidPayload(res))>>),
      Req("PUT", res, first, WriteCred, <<JsonType, ObjectBody(OtherPayload(res))>>),
      Req("PUT", res, first, WriteCred, <<JsonType, ObjectBody(InvalidPayload(res))>>),
      Req("DELETE", res, first, WriteCred, NoContent)}

ConcurrentRequests == UNION {ConcurrentRequestsOf(res) : res \in Resources}

InitConcurrent == InitWith({SecureEnv})

\* the store calls a handler awaits
AwaitedCalls == {"find", "findOne", "insertOne", "replaceOne", "deleteOne"}

\* how many Creates are in flight
PendingCreates ==
  BagCardinality([r \in {q \in BagToSet(inflight) : q.method = "POST"} |-> inflight[r]])

\* request r arrives while a connection is free: the middleware and the handler run
\* up to the await of the store call, or to the response if they do not get that far
Receive(r) ==
  /\ phase = "listening"
  /\ BagCardinality(inflight) < MaxInflight
  /\ r.method = "POST" => nextId + PendingCreates < MaxIds
  /\ LET out == app(r, jwtCheck, needWrite, db, now, maxYear)
     IN IF \E i \in DOMAIN out.calls : out.calls[i] \in AwaitedCalls
        THEN /\ inflight' = inflight (+) SetToBag({r})
             /\ UNCHANGED exchangeVars
        ELSE /\ req' = r /\ resp' = out.resp /\ calls' = out.calls
             /\ UNCHANGED inflight
  /\ UNCHANGED <<env, phase, gateVars, maxYear, now, storeVars, deleted, callVars>>

\* the store performs the call of r, one of the requests in flight, and the handler
\* of r answers from the result
StoreStep(r) ==
  /\ phase = "listening"
  /\ BagIn(r, inflight)
  /\ LET out == app(r, jwtCheck, needWrite, db, now, maxYear)
     IN /\ req' = r /\ resp' = out.resp /\ calls' = out.calls
        /\ books' = out.db.books
        /\ authors' = out.db.authors
        /\ nextId' = out.db.nextId
        /\ deleted' = IF r.method = "DELETE" /\ out.resp.status = 204
                      THEN deleted \cup {parseId(r.id).value}
                      ELSE deleted
  /\ inflight' = inflight (-) SetToBag({r})
  /\ UNCHANGED <<env, phase, gateVars, maxYear, now, storeUp, callVars>>

NextConcurrent ==
  \/ Startup
  \/ \E r \in ConcurrentRequests : Receive(r)
  \/ \E r \in ConcurrentRequests : StoreStep(r)

SpecConcurrent == InitConcurrent /\ [][NextConcurrent]_vars

(***************************************************************************)
(* Vocabulary of the properties.                                           *)
(***************************************************************************)
\* a response has been sent for req
Answered == phase = "responded"

\* the step that answers a request: req' is the request and resp' the response, the
\* unprimed store is the store the request found
Step == phase = "listening" /\ phase' = "responded"

\* r is a request for one of the mutating routes
MutatingRequest(r) ==
  \/ r.method = "POST" /\ r.id = <<>>
  \/ r.method \in {"PUT", "DELETE"} /\ r.id # <<>>

\* the gate, as loaded, lets r through
Authorized(r) == Apply(jwtCheck, r).ok /\ Apply(needWrite, r).ok

Collection(res) == IF res = "books" THEN books ELSE authors

\* the collection of res holds a record with the id written by the path segment
Stored(res, segment) ==
  parseId(segment).ok /\ findOne(Collection(res), parseId(segment).value) # {}

\* r carries, as application/json, a payload its resource's schema accepts
PayloadValid(r) ==
  /\ r.ctype = JsonType /\ r.body.kind = "object"
  /\ IF r.resource = "books" THEN BookSchemaParse(r.body.payload, maxYear).ok
     ELSE AuthorSchemaParse(r.body.payload, now).ok

ClientFailures == {400, 401, 403, 415}
StoreWrites == {"insertOne", "replaceOne", "deleteOne"}

(***************************************************************************)
(* C1.  In secure enforcement mode, for every mutating operation: a        *)
(* request with no credential is answered 401; a request whose valid       *)
(* credential lacks write:library is answered 403; a request with a valid  *)
(* write-scoped credential and a valid payload (POST), or a valid payload  *)
(* and the id of an existing record (PUT), or the id of an existing record *)
(* (DELETE), is answered 201, 204 and 204.                                 *)
(***************************************************************************)
C1_SecureOutcomes ==
  [][(Step /\ ENFORCE /\ MutatingRequest(req')) =>
       /\ req'.cred.kind = "none" => resp'.status = 401
       /\ (req'.cred.kind = "valid" /\ WriteScope \notin req'.cred.scopes)
            => resp'.status = 403
       /\ (req'.cred = WriteCred /\ req'.method = "POST" /\ PayloadValid(req'))
            => resp'.status = 201
       /\ (req'.cred = WriteCred /\ req'.method = "PUT" /\ PayloadValid(req')
           /\ Stored(req'.resource, req'.id))
            => resp'.status = 204
       /\ (req'.cred = WriteCred /\ req'.method = "DELETE" /\ req'.body.kind = "none"
           /\ Stored(req'.resource, req'.id))
            => resp'.status = 204]_vars

(***************************************************************************)
(* C2.  In secure mode a mutating request that fails the credential or     *)
(* scope check is answered 401 or 403 whatever else is wrong with it       *)
(* (malformed JSON body, content type, schema, path id): never 400 or 415. *)
(***************************************************************************)
C2_AuthorizationFirst ==
  (Answered /\ ENFORCE /\ MutatingRequest(req) /\ ~Authorized(req))
    => resp.status \in {401, 403}

(***************************************************************************)
(* C3.  A request answered with a client-input failure (400, 401, 403,     *)
(* 415) performs no store mutation: insertOne, replaceOne and deleteOne    *)
(* are not called for it and both collections are as it found them.        *)
(***************************************************************************)
C3_NoMutationOnClientFailure ==
  [][(Step /\ resp'.status \in ClientFailures) =>
       /\ books' = books /\ authors' = authors /\ nextId' = nextId
       /\ \A i \in DOMAIN calls' : calls'[i] \notin StoreWrites]_vars

\* a schema violation answered 400 while the collection holds records
C3_Witness ==
  /\ Answered /\ resp.status = 400 /\ resp.keys = {"message", "errors"}
  /\ req.method = "POST" /\ req.resource = "books" /\ books # {}

(***************************************************************************)
(* C4.  Every record held in books and authors satisfies its resource      *)
(* schema, and whatever insertOne or replaceOne is given is the output of  *)
(* the Schema Validator for the request's payload.                         *)
(***************************************************************************)
IsTrimmedText(x) == IsString(x) /\ x.v # <<>> /\ trim(x.v) = x.v

\* d is an author as the schema stores one
AuthorRecordOk(d, today) ==
  /\ AuthorRequired \cup {"_id"} \subseteq DOMAIN d
  /\ DOMAIN d \subseteq AuthorFields \cup {"_id"}
  /\ d["_id"].type = "ObjectId"
  /\ \A f \in {"firstName", "lastName", "nationality"} : IsTrimmedText(d[f])
  /\ IsString(d.email) /\ IsEmail(d.email.v) /\ toLowerCase(d.email.v) = d.email.v
  /\ d.birthdate.type = "Date" /\ d.birthdate.v <= today
  /\ "website" \in DOMAIN d => IsTrimmedText(d.website) /\ IsUrl(d.website.v)

\* d is a book as the schema stores one
BookRecordOk(d, bound) ==
  /\ DOMAIN d = BookFields \cup {"_id"}
  /\ d["_id"].type = "ObjectId"
  /\ IsString(d.title) /\ Len(d.title.v) >= 1
  /\ IsString(d.isbn) /\ Len(d.isbn.v) >= MinIsbnLen
  /\ d.authorId.type = "ObjectId" /\ IsHex24(d.authorId.v)
  /\ IsNumber(d.publishedYear) /\ IsInt(d.publishedYear)
  /\ d.publishedYear.v >= 100 * MinYear /\ d.publishedYear.v <= 100 * bound
  /\ IsArray(d.genres) /\ d.genres.v # <<>>
  /\ \A i \in DOMAIN d.genres.v : IsString(d.genres.v[i])
  /\ IsNumber(d.pages) /\ IsInt(d.pages) /\ d.pages.v > 0
  /\ IsBoolean(d.inStock)
  /\ IsNumber(d.price) /\ d.price.v >= 0

C4_Records ==
  /\ \A d \in books : BookRecordOk(d, maxYear)
  /\ \A d \in authors : AuthorRecordOk(d, now)

\* the documents a step writes are the validator's output for the request's payload
C4_Writes ==
  Step =>
    /\ \A i \in DOMAIN calls' :
         calls'[i] \in {"insertOne", "replaceOne"} =>
           i > 1 /\ calls'[i - 1] \in {"BookSchema.parse", "AuthorSchema.parse"}
    /\ \A d \in books' \ books :
         /\ BookSchemaParse(req'.body.payload, maxYear).ok
         /\ WithoutField(d, "_id") = BookSchemaParse(req'.body.payload, maxYear).value
    /\ \A d \in authors' \ authors :
         /\ AuthorSchemaParse(req'.body.payload, now).ok
         /\ WithoutField(d, "_id") = AuthorSchemaParse(req'.body.payload, now).value

C4_PersistedRecordsValid == []C4_Records /\ [][C4_Writes]_vars

\* an author created from a payload that had to be trimmed and lower-cased
C4_Witness ==
  /\ Answered /\ resp.status = 201 /\ req.resource = "authors"
  /\ req.body.payload.firstName = Str(<<" ", "J", "o", " ">>)
  /\ \E d \in authors : d.firstName = Str(<<"J", "o">>) /\ d.birthdate.type = "Date"

(***************************************************************************)
(* C5.  Started with NODE_ENV=production, AUTH_DISABLE not true and the    *)
(* audience, or both the issuer and the domain, missing, the process       *)
(* fails at startup: no middleware is built, and it never serves a         *)
(* request.                                                                *)
(***************************************************************************)
ProductionUnconfigured(e) ==
  /\ toLowerCase(e.NODE_ENV) = ProductionText
  /\ toLowerCase(e.AUTH_DISABLE) # TrueText
  /\ e.AUTH0_AUDIENCE = <<>> \/ (e.AUTH0_ISSUER_BASE_URL = <<>> /\ e.AUTH0_DOMAIN = <<>>)

C5_FailFastInProduction ==
  /\ [][/\ (phase = "boot" /\ ProductionUnconfigured(env)) =>
             /\ phase' = "crashed"
             /\ jwtCheck' = NoMiddleware /\ needWrite' = NoMiddleware
             /\ needRead' = NoMiddleware
        /\ phase # "crashed"]_vars
  /\ [](phase = "crashed" => req = NoReq /\ resp = NoResp)

\* the process died with an audience configured, but no issuer and no domain
C5_Witness ==
  /\ phase = "crashed"
  /\ env.AUTH0_AUDIENCE # <<>>
  /\ env.AUTH_DISABLE = <<"f", "a", "l", "s", "e">>

(***************************************************************************)
(* C6.  The constants of the gate are set by startup and by nothing after  *)
(* it, and every request is checked under the mode they hold, whatever     *)
(* process.env holds by then.                                              *)
(***************************************************************************)
C6_ModeResolvedOnce ==
  /\ [][phase # "boot" => gateVars' = gateVars]_vars
  /\ [](Answered /\ MutatingRequest(req) =>
          /\ resp.status = 401 <=> (ENFORCE /\ req.cred.kind # "valid")
          /\ resp.status = 403 <=>
               (ENFORCE /\ req.cred.kind = "valid" /\ WriteScope \notin req.cred.scopes))

\* a request refused under the mode resolved at startup, after process.env was
\* changed to one that would disable the gate
C6_Witness ==
  /\ Answered /\ ENFORCE /\ AUTH_DISABLED(env) /\ ~EnforceOf(env)
  /\ req.cred = NoCred /\ resp.status = 401

(***************************************************************************)
(* C7.  With AUTH_DISABLE=true the process starts in mode "disabled" in    *)
(* any environment; then a mutating request with no credential and a       *)
(* valid payload and identifier is answered 201 or 204, and no request is  *)
(* answered 401 or 403.                                                    *)
(***************************************************************************)
C7_DisabledBypass ==
  [][/\ (phase = "boot" /\ toLowerCase(env.AUTH_DISABLE) = TrueText) =>
          phase' = "listening" /\ MODE' = "disabled"
     /\ (Step /\ MODE = "disabled") =>
          /\ resp'.status \notin {401, 403}
          /\ (req'.cred = NoCred /\ req'.method = "POST" /\ PayloadValid(req'))
               => resp'.status = 201
          /\ (req'.cred = NoCred /\ req'.method = "PUT" /\ PayloadValid(req')
              /\ Stored(req'.resource, req'.id))
               => resp'.status = 204
          /\ (req'.cred = NoCred /\ req'.method = "DELETE"
              /\ Stored(req'.resource, req'.id))
               => resp'.status = 204]_vars

\* a record deleted without a credential by a process started disabled
C7_Witness ==
  /\ Answered /\ MODE = "disabled" /\ req.cred = NoCred
  /\ req.method = "DELETE" /\ resp.status = 204

(***************************************************************************)
(* C8.  An authorized Create or Replace whose content type is not          *)
(* application/json is answered 415 with body {message}, whatever its      *)
(* body and path id, and the Schema Validator is not applied to it.        *)
(***************************************************************************)
C8_ContentTypeBeforeSchema ==
  (Answered /\ req.method \in {"POST", "PUT"} /\ MutatingRequest(req)
     /\ Authorized(req) /\ req.ctype # JsonType)
    => /\ resp.status = 415
       /\ resp.keys = {"message"}
       /\ \A i \in DOMAIN calls :
            calls[i] \notin {"BookSchema.parse", "AuthorSchema.parse"}

\* a Replace sent as text/plain with a payload the schema would refuse
C8_Witness ==
  /\ Answered /\ req.method = "PUT" /\ req.resource = "books"
  /\ req.ctype = TextType /\ req.body = ObjectBody(InvalidPayload("books"))
  /\ resp.status = 415

(***************************************************************************)
(* C9.  As claimed: once a DELETE of id has answered 204, every later      *)
(* authorized Delete, Get or Replace of that id answers 404.               *)
(***************************************************************************)
\* the request of this step names, by its path, an id whose DELETE was answered 204
LaterRequestOfDeleted ==
  /\ Step /\ req'.method \in {"GET", "PUT", "DELETE"}
  /\ parseId(req'.id).ok /\ parseId(req'.id).value \in deleted
  /\ expressJson(req').ok

C10_ReplaceUnknownAuthor ==
  [][(Step /\ req'.method = "PUT" /\ req'.resource = "authors" /\ Authorized(req')
        /\ PayloadValid(req') /\ parseId(req'.id).ok /\ ~Stored("authors", req'.id))
       => /\ resp'.status = 404
          /\ resp'.keys = {"message"} /\ resp'.message = "Author not found"
          /\ authors' = authors /\ books' = books]_vars

\* a Replace of an unknown author while the collection holds another one
C10_Witness ==
  /\ Answered /\ req.method = "PUT" /\ req.resource = "authors" /\ req.id = UnknownId
  /\ PayloadValid(req) /\ resp.status = 404 /\ authors # {}

(***************************************************************************)
(* C11.  A Replace answered 204 leaves, under the same id, exactly the     *)
(* normalized fields of its payload: no field of the previous record       *)
(* survives, Get(id) returns that record, and every other record is        *)
(* unchanged.                                                              *)
(***************************************************************************)
\* the collection of res after the step
CollectionNext(res) == IF res = "books" THEN books' ELSE authors'

\* the normalized form of payload p of resource res
Normalized(res, p) ==
  IF res = "books" THEN BookSchemaParse(p, maxYear).value
  ELSE AuthorSchemaParse(p, now).value

\* what GET /res/{segment} answers after the step
GetNext(res, segment) ==
  app(Req("GET", res, segment, NoCred, NoContent), jwtCheck, needWrite,
      [books |-> books', authors |-> authors', nextId |-> nextId', up |-> storeUp'],
      now, maxYear).resp

C11_ReplaceSemantics ==
  [][(Step /\ req'.method = "PUT" /\ resp'.status = 204) =>
       LET res == req'.resource
           id == parseId(req'.id).value
           p == Normalized(res, req'.body.payload)
           old == findOne(Collection(res), id)
           new == findOne(CollectionNext(res), id)
       IN /\ Cardinality(old) = 1 /\ Cardinality(new) = 1
          /\ \A d \in new :
               /\ d["_id"] = id
               /\ DOMAIN d = DOMAIN p \cup {"_id"}
               /\ \A f \in DOMAIN p : d[f] = p[f]
               /\ GetNext(res, req'.id) = DocReply(d)
          /\ CollectionNext(res) \ new = Collection(res) \ old
          /\ \A other \in Resources \ {res} : CollectionNext(other) = Collection(other)]_vars

\* an author replaced by a payload without website: the stored record has none
C11_Witness ==
  /\ Answered /\ req.method = "PUT" /\ req.resource = "authors" /\ resp.status = 204
  /\ req.body.payload = WithoutField(TolkienPayload, "website")
  /\ \A d \in findOne(authors, parseId(req.id).value) : "website" \notin DOMAIN d
  /\ findOne(authors, parseId(req.id).value) # {}

(***************************************************************************)
(* C12.  An authorized POST with a valid payload inserts exactly one       *)
(* record, answers 201 with body {id}, id the 24 hex characters the store  *)
(* assigned, and Location /books/{id} (/authors/{id}); Get of that id      *)
(* then returns the normalized record.                                     *)
(***************************************************************************)
C12_CreateSemantics ==
  [][(Step /\ req'.method = "POST" /\ req'.id = <<>> /\ Authorized(req')
        /\ PayloadValid(req')) =>
       LET res == req'.resource
           p == Normalized(res, req'.body.payload)
           new == CollectionNext(res) \ Collection(res)
       IN /\ resp'.status = 201
          /\ resp'.keys = {"id"} /\ resp'.doc = EmptyObject
          /\ Len(resp'.id) = 24
          /\ \A i \in DOMAIN resp'.id : IsDigit(resp'.id[i]) \/ IsLetter(resp'.id[i])
          /\ resp'.location = PathOf(res) \o resp'.id
          /\ Collection(res) \subseteq CollectionNext(res)
          /\ Cardinality(new) = 1
          /\ \A d \in new :
               /\ ObjectIdToString(d["_id"]) = resp'.id
               /\ d = WithField(p, "_id", d["_id"])
               /\ GetNext(res, resp'.id) = DocReply(d)
          /\ \A other \in Resources \ {res} : CollectionNext(other) = Collection(other)]_vars

\* a second book created: the body holds the id of the new record only
C12_Witness ==
  /\ Answered /\ req.method = "POST" /\ req.resource = "books" /\ resp.status = 201
  /\ resp.keys = {"id"} /\ Cardinality(books) = 2
  /\ \E d \in books : ObjectIdToString(d["_id"]) = resp.id

(***************************************************************************)
(* C13.  As claimed: parseId fails with the 400 'Invalid id format' error  *)
(* for every string that is not 24 hexadecimal characters, succeeds for    *)
(* every string that is, and the identifier converts back to the same      *)
(* string.                                                                 *)
(***************************************************************************)
HexDigits == {"0", "1", "2", "3", "4", "5", "6", "7", "8", "9",
              "a", "b", "c", "d", "e", "f", "A", "B", "C", "D", "E", "F"}

\* s is 24 hexadecimal characters
Hex24Text(s) == Len(s) = 24 /\ \A i \in DOMAIN s : s[i] \in HexDigits

\* parseId was applied to arg and did as the Identifier Codec is to do
ParsedAsSpecified ==
  IF Hex24Text(arg.v) THEN result[1].ok /\ result[1].value.type = "ObjectId"
  ELSE /\ ~result[1].ok
       /\ errorHandler(result[1].err) = MessageReply(400, "Invalid id format")

C13_RoundTripSameText ==
  /\ Len(result) >= 1 => ParsedAsSpecified
  /\ Len(result) = 2 => result[2] = arg

(***************************************************************************)
(* C13, amended.  parseId fails with the 400 'Invalid id format' error for *)
(* every string that is not 24 hexadecimal characters and succeeds for     *)
(* every string that is; the identifier converts back to the string in     *)
(* lower case, which is the string itself when it holds no upper-case      *)
(* digit, and which parses to the same identifier.                         *)
(***************************************************************************)
C13_RoundTripLowerCase ==
  /\ Len(result) >= 1 => ParsedAsSpecified
  /\ Len(result) = 2 =>
       /\ Hex24Text(result[2].v)
       /\ \A i \in 1..24 :
            IF IsUpper(arg.v[i]) THEN result[2].v[i] = LowerChar(arg.v[i])
            ELSE result[2].v[i] = arg.v[i]
       /\ (\A i \in 1..24 : ~IsUpper(arg.v[i])) => result[2] = arg
       /\ parseId(result[2].v).ok /\ parseId(result[2].v).value = result[1].value

\* an id written with upper-case digits came back in lower case
C13_Witness ==
  /\ Len(result) = 2 /\ arg = Str(UpperId)
  /\ result[2] # arg /\ result[2] = Str(toLowerCase(UpperId))

(***************************************************************************)
(* C14.  A Create or Replace whose payload omits a required field, or      *)
(* holds publishedYear below 1400 or above the current year + 1, an isbn   *)
(* shorter than 10, empty genres, pages not positive, a negative price, an *)
(* authorId that is not 24 hex characters, or a birthdate in the future,   *)
(* is answered 400 with body {message, errors}, and errors names every     *)
(* such field.                                                             *)
(***************************************************************************)
\* the date a YYYY-MM-DD text names, as yyyymmdd
DayOfText(s) ==
  ParseDigits(SubSeq(s, 1, 4)) * 10000 + ParseDigits(SubSeq(s, 6, 7)) * 100
    + ParseDigits(SubSeq(s, 9, 10))

\* the fields of book payload p that are missing or out of bounds on the day today
BookViolations(p, today) ==
  ({"title", "isbn", "authorId", "publishedYear", "genres", "pages", "inStock", "price"}
     \ DOMAIN p)
    \cup {f \in DOMAIN p :
            \/ f = "publishedYear" /\ p[f].type = "number"
               /\ (p[f].v < 100 * 1400 \/ p[f].v > 100 * (YearOf(today) + 1))
            \/ f = "isbn" /\ p[f].type = "string" /\ Len(p[f].v) < 10
            \/ f = "genres" /\ p[f].type = "array" /\ Len(p[f].v) = 0
            \/ f = "pages" /\ p[f].type = "number" /\ p[f].v <= 0
            \/ f = "price" /\ p[f].type = "number" /\ p[f].v < 0
            \/ f = "authorId" /\ p[f].type = "string" /\ ~Hex24Text(p[f].v)}

\* the fields of author payload p that are missing or out of bounds on the day today
AuthorViolations(p, today) ==
  ({"firstName", "lastName", "email", "birthdate", "nationality"} \ DOMAIN p)
    \cup {f \in DOMAIN p :
            f = "birthdate" /\ p[f].type = "string" /\ IsDateString(p[f].v)
              /\ DayOfText(p[f].v) > today}

Violations(r, today) ==
  IF r.resource = "books" THEN BookViolations(r.body.payload, today)
  ELSE AuthorViolations(r.body.payload, today)

\* r reaches the Schema Validator: authorized, sent as JSON, its path id well formed
ReachesValidator(r) ==
  /\ r.method \in {"POST", "PUT"} /\ MutatingRequest(r) /\ Authorized(r)
  /\ r.ctype = JsonType /\ r.body.kind = "object"
  /\ r.method = "PUT" => parseId(r.id).ok

C14_BoundsRejected ==
  (Answered /\ ReachesValidator(req) /\ Violations(req, now) # {})
    => /\ resp.status = 400
       /\ resp.keys = {"message", "errors"}
       /\ Violations(req, now) \subseteq resp.errors

\* a book of the year 1399 refused, with the violation keyed to publishedYear
C14_Witness ==
  /\ Answered /\ req.method = "POST" /\ req.resource = "books"
  /\ req.body.payload = [HobbitPayload EXCEPT !.publishedYear = IntNum(1399)]
  /\ resp.status = 400 /\ resp.errors = {"publishedYear"}

(***************************************************************************)
(* C15.  A Create or Replace payload that carries a field its schema does  *)
(* not declare is answered 400 'Validation error', and nothing is written. *)
(***************************************************************************)
Declared(res) ==
  IF res = "books"
  THEN {"title", "isbn", "authorId", "publishedYear", "genres", "pages", "inStock", "price"}
  ELSE {"firstName", "lastName", "email", "birthdate", "nationality", "website"}

C15_ExtraFieldsRejected ==
  (Answered /\ ReachesValidator(req)
     /\ ~(DOMAIN req.body.payload \subseteq Declared(req.resource)))
    => /\ resp.status = 400 /\ resp.message = "Validation error"
       /\ \A i \in DOMAIN calls : calls[i] \notin StoreWrites

(***************************************************************************)
(* C16.  The upper bound of publishedYear is the year of the day on which  *)
(* the payload is validated, plus one: a book that is valid in every       *)
(* other field and whose publishedYear lies between 1400 and that bound    *)
(* is not refused.                                                         *)
(***************************************************************************)
C16_YearBoundAtValidation ==
  (Answered /\ ReachesValidator(req) /\ req.resource = "books"
     /\ \E y \in MinYear..(YearOf(now) + 1) :
          req.body.payload = [HobbitPayload EXCEPT !.publishedYear = IntNum(y)])
    => resp.status \in {201, 204, 404}

(***************************************************************************)
(* C17.  As claimed: validating the normalized output of a successful      *)
(* validation of an Author payload succeeds again and yields the same      *)
(* normalized result.                                                      *)
(***************************************************************************)
C17_NormalizationIdempotent ==
  Len(result) >= 2 => result[2].ok /\ result[2].value = result[1].value

(***************************************************************************)
(* C17, amended.  The normalized output holds trimmed names, a lower-case  *)
(* email and birthdate as a Date.  Validated again it fails, on birthdate  *)
(* alone; its other fields pass their rules unchanged; and with birthdate  *)
(* written as the date string again it validates to the same normalized    *)
(* result.                                                                 *)
(***************************************************************************)
\* text t has no space at either end and no upper-case letter where lower is required
TrimmedText(t) == t = <<>> \/ (t[1] # " " /\ t[Len(t)] # " ")

C17_IdempotentButBirthdate ==
  /\ (Len(result) >= 1 /\ result[1].ok) =>
       LET n == result[1].value
       IN /\ \A f \in {"firstName", "lastName", "nationality"} :
               n[f].type = "string" /\ TrimmedText(n[f].v) /\ n[f].v # <<>>
          /\ n.email.type = "string" /\ TrimmedText(n.email.v)
          /\ \A i \in DOMAIN n.email.v : ~IsUpper(n.email.v[i])
          /\ n.birthdate.type = "Date"
          /\ \A f \in DOMAIN n \ {"birthdate"} : AuthorRule(f, n[f], now) = Pass(n[f])
  /\ Len(result) >= 2 => ~result[2].ok /\ result[2].errors = {"birthdate"}
  /\ Len(result) = 3 => result[3].ok /\ result[3].value = result[1].value

\* a payload with spaces and capitals, normalized, refused as it came out, and accepted
\* to the same result with its birthdate as text
C17_Witness ==
  /\ Len(result) = 3
  /\ arg.firstName = Str(<<" ", "J", "o", " ">>)
  /\ arg.email = Str(<<"J", "@", "E", ".", "U", "K">>)
  /\ result[1].value.firstName = Str(<<"J", "o">>)
  /\ result[1].value.email = Str(<<"j", "@", "e", ".", "u", "k">>)
  /\ ~result[2].ok /\ result[3].ok

(***************************************************************************)
(* C18.  A request whose handler calls the store while the store fails is  *)
(* answered 500 with the body {message: 'Internal Server Error'} and       *)
(* changes nothing in the store; and the text of an error is in a response *)
(* only if the error is flagged as exposable, so the text of a store error *)
(* is in none.                                                             *)
(***************************************************************************)
StoreCalls == {"find", "findOne"} \cup StoreWrites

\* the errors that reach the error handler of server.js
ThrownErrors ==
  {InvalidIdError, BodyParseError, UnauthorizedError, InsufficientScopeError, StoreError}

C18_StoreFailureOpaque ==
  [][ /\ (Step /\ ~storeUp /\ \E i \in DOMAIN calls' : calls'[i] \in StoreCalls)
        => /\ resp' = MessageReply(500, "Internal Server Error")
           /\ UNCHANGED <<books, authors, nextId>>
      /\ Step => \A e \in ThrownErrors : resp'.message = e.message => e.expose
      /\ (Step /\ resp'.status = 500) => resp' = MessageReply(500, "Internal Server Error")
    ]_vars

\* a Create with a valid payload and a write-scoped token, answered 500 because the
\* store is down
C18_Witness ==
  /\ Answered /\ ~storeUp
  /\ req.method = "POST" /\ PayloadValid(req) /\ Authorized(req)
  /\ calls[Len(calls)] = "insertOne"
  /\ resp = MessageReply(500, "Internal Server Error")

(***************************************************************************)
(* C19.  Whenever startup completes, the gate enforces exactly if the      *)
(* audience and an issuer (AUTH0_ISSUER_BASE_URL or AUTH0_DOMAIN) are      *)
(* configured and AUTH_DISABLE is not true; jwtCheck, needWrite and        *)
(* needRead are then real checks if it enforces and no-ops if it does not; *)
(* and a verifier that was built has an audience and an issuer.            *)
(***************************************************************************)
ConfiguredAndEnabled(e) ==
  /\ e.AUTH0_AUDIENCE # <<>>
  /\ e.AUTH0_ISSUER_BASE_URL # <<>> \/ e.AUTH0_DOMAIN # <<>>
  /\ toLowerCase(e.AUTH_DISABLE) # TrueText

C19_GateConsistent ==
  [][(phase = "boot" /\ phase' = "listening") =>
       /\ ENFORCE' <=> ConfiguredAndEnabled(env)
       /\ IF ENFORCE'
          THEN /\ jwtCheck'.kind = "auth"
               /\ jwtCheck'.audience # <<>> /\ jwtCheck'.issuerBaseURL # <<>>
               /\ needWrite' = requiredScopes({WriteScope})
               /\ needRead' = requiredScopes({ReadScope})
          ELSE jwtCheck' = noop /\ needWrite' = noop /\ needRead' = noop]_vars

\* a process listening with a verifier whose issuer was derived from AUTH0_DOMAIN,
\* outside production, and refusing a request without a token
C19_Witness ==
  /\ Answered /\ ENFORCE
  /\ jwtCheck = auth(AudienceText, HttpsPrefix \o DomainText)
  /\ needWrite.kind = "requiredScopes"
  /\ req.cred = NoCred /\ resp.status = 401

(***************************************************************************)
(* C20.  With requests in flight together, in every order in which the     *)
(* store performs their calls: a collection gains an id only in a step     *)
(* that answers 201 to a Create, and that id only; it loses an id only in  *)
(* a step that answers 204 to a Delete of that id; the store call of a     *)
(* Replace leaves the ids of the collection as they were, answers 404 and  *)
(* changes nothing if the id is not stored by then, and 204 if it is; and  *)
(* an id whose Delete was answered 204 is never stored again.              *)
(***************************************************************************)
Ids(coll) == {d["_id"] : d \in coll}

C20_ReplaceNeverCreates ==
  /\ [][\A res \in Resources :
          LET old == Ids(Collection(res))
              new == Ids(CollectionNext(res))
          IN /\ new \ old # {} =>
                  /\ BagIn(req', inflight) /\ inflight' = inflight (-) SetToBag({req'})
                  /\ req'.method = "POST" /\ req'.resource = res
                  /\ resp'.status = 201
                  /\ new \ old = {parseId(resp'.id).value}
             /\ old \ new # {} =>
                  /\ BagIn(req', inflight) /\ inflight' = inflight (-) SetToBag({req'})
                  /\ req'.method = "DELETE" /\ req'.resource = res
                  /\ resp'.status = 204
                  /\ old \ new = {parseId(req'.id).value}
             /\ \A r \in BagToSet(inflight) :
                  (r.method = "PUT" /\ r.resource = res
                   /\ inflight' = inflight (-) SetToBag({r})) =>
                    /\ new = old
                    /\ IF Stored(res, r.id) THEN resp'.status = 204
                       ELSE resp'.status = 404 /\ CollectionNext(res) = Collection(res)
       ]_vars
  /\ [](deleted \cap (Ids(books) \cup Ids(authors)) = {})

\* a Replace answered 404 for an id whose Delete was answered 204, while another
\* Replace of that id and a Create are still in flight
C20_Witness ==
  /\ req.method = "PUT" /\ resp.status = 404
  /\ parseId(req.id).value \in deleted
  /\ Ids(Collection(req.resource)) = {}
  /\ \E r, q \in BagToSet(inflight) :
       /\ r.method = "PUT" /\ r.resource = req.resource /\ r.id = req.id
       /\ q.method = "POST" /\ q.resource = req.resource

(***************************************************************************)
(* C21.  An authorized Replace that carries a payload is checked in the    *)
(* order content type, path id, schema, store.  Not sent as                *)
(* application/json it is answered 415 and its id is not parsed.  Sent as  *)
(* application/json with a malformed id it is answered 400 with message    *)
(* 'Invalid id format' and no errors field, whatever its payload, and the  *)
(* schema is not applied.  With a well-formed id and an invalid payload it *)
(* is answered 400 'Validation error' with an errors field, whether the id *)
(* is stored or not, and the store is not called.  Otherwise the store is  *)
(* called and it is answered 204 if the id is stored and 404 if not.       *)
(***************************************************************************)
SchemaCalls == {"BookSchema.parse", "AuthorSchema.parse"}

\* the calls made for the answered request, as a set
Called == {calls[i] : i \in DOMAIN calls}

C21_ReplaceCheckOrder ==
  (Answered /\ req.method = "PUT" /\ req.id # <<>> /\ Authorized(req)
     /\ req.body.kind = "object")
    => /\ req.ctype # JsonType =>
            /\ resp = MessageReply(415, ContentTypeMessage)
            /\ Called \cap ({"parseId", "replaceOne"} \cup SchemaCalls) = {}
       /\ (req.ctype = JsonType /\ ~parseId(req.id).ok) =>
            /\ resp = MessageReply(400, "Invalid id format")
            /\ "errors" \notin resp.keys
            /\ Called \cap ({"replaceOne"} \cup SchemaCalls) = {}
       /\ (req.ctype = JsonType /\ parseId(req.id).ok /\ ~PayloadValid(req)) =>
            /\ resp.status = 400 /\ resp.message = "Validation error"
            /\ resp.keys = {"message", "errors"} /\ resp.errors # {}
            /\ "replaceOne" \notin Called
       /\ (req.ctype = JsonType /\ parseId(req.id).ok /\ PayloadValid(req)) =>
            /\ "replaceOne" \in Called
            /\ resp.status = IF Stored(req.resource, req.id) THEN 204 ELSE 404

\* a Replace of an author sent as application/json with a malformed id and an invalid
\* payload, let through by the enforcing gate and answered on its id
C21_Witness ==
  /\ Answered /\ ENFORCE /\ req.method = "PUT" /\ req.resource = "authors"
  /\ req.ctype = JsonType /\ req.id = MalformedId
  /\ req.body = ObjectBody(InvalidPayload("authors"))
  /\ resp = MessageReply(400, "Invalid id format")
  /\ calls[Len(calls)] = "parseId"

=============================================================================
